---------------------------- MODULE Spec2Model ----------------------------
(***************************************************************************)
(* A model of the clockwork package: the Timestamp value type              *)
(* (src/clockwork/timestamp.py) and its period-end subclasses MonthEnd     *)
(* (src/clockwork/month_end.py) and QuarterEnd                             *)
(* (src/clockwork/quarter_end.py), and the job runner built on it          *)
(* (src/clockwork/taskmaster).                                             *)
(*                                                                         *)
(* A datetime.datetime is a record [year, month, day, hour]; the           *)
(* time-of-day is kept to the hour, hour = 0 being midnight.  An object is *)
(* a record [cls, dt]: the Python class of the instance and its wrapped    *)
(* datetime (the _dt attribute).  A Python call either returns or raises:  *)
(* its outcome is a record [ok, val, err].  A dict of keyword arguments is *)
(* a function from its keys; an optional argument is None or Some(v).      *)
(***************************************************************************)
EXTENDS Integers, Sequences, FiniteSets, TLC

VARIABLES
    now,      \* what datetime.datetime.now() returns: the wall clock
    scheme,   \* the class attribute QuarterEnd.scheme
    t,        \* the instance the program holds (the receiver), or NoObj
    op,       \* the last operation and its arguments
    res,      \* the outcome of the last operation
    master    \* the class TaskMaster: its jobs, its jobs table and its scheduler

vars == <<now, scheme, t, op, res, master>>

-----------------------------------------------------------------------------
(* Bounds of the model *)

\* the year the wall clock starts in
ClockYear == 2024
\* how many times the wall clock may advance
MaxTicks == 8
\* the largest number of periods passed to a constructor or to offset()
MaxPeriods == 1
\* explicit year arguments range over ClockYear .. ClockYear + YearSpan - 1
YearSpan == 1
\* an in-place update may move a receiver this many days from where it began
WindowDays == 1

MONTHS_IN_YEAR == 12

-----------------------------------------------------------------------------
(* Python values *)

None == <<>>
Some(v) == <<v>>
IsNone(x) == x = <<>>
Get(x) == x[1]


\* v bound to a name: the result of a call, used more than once
Bind(v, F(_)) == F(v)

Return(v) == [ok |-> TRUE, val |-> <<v>>, err |-> ""]
Raise(e) == [ok |-> FALSE, val |-> <<>>, err |-> e]
Val(r) == r.val[1]

DT(y, m, d, h) == [year |-> y, month |-> m, day |-> d, hour |-> h]
Obj(c, dt) == [dt |-> dt, cls |-> c]
NoObj == [dt |-> DT(0, 0, 0, 0), cls |-> "NoObj"]

\* Python floor division and modulo for a positive divisor
DivMod(a, b) == <<a \div b, a % b>>

Abs(n) == IF n < 0 THEN -n ELSE n
Sign(n) == IF n > 0 THEN 1 ELSE IF n < 0 THEN -1 ELSE 0

-----------------------------------------------------------------------------
(* The Gregorian calendar, as the datetime and calendar modules compute it *)

IsLeap(y) == y % 4 = 0 /\ (y % 100 # 0 \/ y % 400 = 0)

\* Timestamp.days_in_month: calendar.monthrange(year, month)[1]
days_in_month(year, month) ==
    IF month = 2 THEN (IF IsLeap(year) THEN 29 ELSE 28)
    ELSE IF month \in {4, 6, 9, 11} THEN 30 ELSE 31

DaysBeforeYear(y) ==
    LET p == y - 1 IN p * 365 + p \div 4 - p \div 100 + p \div 400

RECURSIVE DaysBeforeMonth(_, _)
DaysBeforeMonth(y, m) ==
    IF m <= 1 THEN 0 ELSE DaysBeforeMonth(y, m - 1) + days_in_month(y, m - 1)

\* date.toordinal(): 0001-01-01 is day 1
ToOrdinal(dt) == DaysBeforeYear(dt.year) + DaysBeforeMonth(dt.year, dt.month) + dt.day

RECURSIVE OrdYear(_, _)
OrdYear(n, y) ==
    IF n <= DaysBeforeYear(y) THEN OrdYear(n, y - 1)
    ELSE IF n > DaysBeforeYear(y + 1) THEN OrdYear(n, y + 1)
    ELSE y

RECURSIVE OrdMonth(_, _, _)
OrdMonth(r, y, m) ==
    IF r > DaysBeforeMonth(y, m + 1) THEN OrdMonth(r, y, m + 1) ELSE m

\* date.fromordinal(n)
FromOrdinal(n, h) ==
    Bind(OrdYear(n, (n * 400) \div 146097 + 1), LAMBDA y :
    Bind(n - DaysBeforeYear(y), LAMBDA r :
    Bind(OrdMonth(r, y, 1), LAMBDA m :
        DT(y, m, r - DaysBeforeMonth(y, m), h))))

\* the datetime constructor accepts only calendar instants
IsValidDT(dt) ==
    /\ dt.year >= 1 /\ dt.year <= 9999
    /\ dt.month >= 1 /\ dt.month <= 12
    /\ dt.day >= 1 /\ dt.day <= days_in_month(dt.year, dt.month)
    /\ dt.hour >= 0 /\ dt.hour <= 23

\* datetime + timedelta(days=d, hours=h)
AddDelta(dt, d, h) ==
    FromOrdinal(ToOrdinal(dt) + d + ((dt.hour + h) \div 24), (dt.hour + h) % 24)

\* datetime.weekday(): Monday is 0
Weekday(dt) == (ToOrdinal(dt) + 6) % 7

-----------------------------------------------------------------------------
(* Python strings: a str is a sequence of one-character strings *)

LowerChars == <<"a","b","c","d","e","f","g","h","i","j","k","l","m",
                "n","o","p","q","r","s","t","u","v","w","x","y","z">>
UpperChars == <<"A","B","C","D","E","F","G","H","I","J","K","L","M",
                "N","O","P","Q","R","S","T","U","V","W","X","Y","Z">>
DigitChars == <<"0","1","2","3","4","5","6","7","8","9">>

IndexIn(seq, c) ==
    IF \E i \in 1..Len(seq) : seq[i] = c
    THEN CHOOSE i \in 1..Len(seq) : seq[i] = c
    ELSE 0

IsDigitChar(c) == IndexIn(DigitChars, c) # 0
IsLetter(c) == IndexIn(LowerChars \o UpperChars, c) # 0
ToUpper(c) == Bind(IndexIn(LowerChars, c), LAMBDA i : IF i # 0 THEN UpperChars[i] ELSE c)
ToLower(c) == Bind(IndexIn(UpperChars, c), LAMBDA i : IF i # 0 THEN LowerChars[i] ELSE c)

\* str.lower()
StrLower(s) == [i \in 1..Len(s) |-> ToLower(s[i])]

\* str.upper()
StrUpper(s) == [i \in 1..Len(s) |-> ToUpper(s[i])]

\* str.title(): a letter is upper-cased after a non-letter, lower-cased otherwise
StrTitle(s) ==
    [i \in 1..Len(s) |->
        IF i = 1 \/ ~IsLetter(s[i - 1]) THEN ToUpper(s[i]) ELSE ToLower(s[i])]

\* str.strip()
RECURSIVE StrStrip(_)
StrStrip(s) ==
    IF s = <<>> THEN s
    ELSE IF Head(s) = " " THEN StrStrip(Tail(s))
    ELSE IF s[Len(s)] = " " THEN StrStrip(SubSeq(s, 1, Len(s) - 1))
    ELSE s

\* str.isdigit()
StrIsDigit(s) == s # <<>> /\ \A i \in 1..Len(s) : IsDigitChar(s[i])

\* int(s) for a string of digits
RECURSIVE StrToInt(_)
StrToInt(s) ==
    IF s = <<>> THEN 0
    ELSE StrToInt(SubSeq(s, 1, Len(s) - 1)) * 10 + (IndexIn(DigitChars, s[Len(s)]) - 1)

\* str(n) for n >= 0
RECURSIVE IntToStr(_)
IntToStr(n) ==
    IF n < 10 THEN <<DigitChars[n + 1]>>
    ELSE Append(IntToStr(n \div 10), DigitChars[(n % 10) + 1])

\* a number in decimal, zero-padded to a width
RECURSIVE StrPad(_, _)
StrPad(n, width) ==
    IF width <= 1 THEN IntToStr(n)
    ELSE IF Len(IntToStr(n)) >= width THEN IntToStr(n)
    ELSE <<"0">> \o StrPad(n, width - 1)

\* strftime('%y'): the year without its century, two digits
StrYY(year) ==
    LET yy == year % 100 IN <<DigitChars[(yy \div 10) + 1], DigitChars[(yy % 10) + 1]>>

-----------------------------------------------------------------------------
(* Scalars and integer-like arguments                                      *)
(*                                                                         *)
(* An argument is a record [kind, n, dt, s]: an int (n), a                 *)
(* datetime.datetime (dt) or a str (s); the fields its kind does not use   *)
(* hold a filler.                                                          *)

NoDT == [year |-> 0, month |-> 0, day |-> 0, hour |-> 0]
Int_(n) == [dt |-> NoDT, n |-> n, s |-> <<>>, kind |-> "int"]
Str_(s) == [dt |-> NoDT, n |-> 0, s |-> s, kind |-> "str"]
Datetime_(dt) == [dt |-> dt, n |-> 0, s |-> <<>>, kind |-> "datetime"]

\* Timestamp._try_int
try_int(x) ==
    IF x.kind = "str"
    THEN IF StrIsDigit(x.s) THEN Return(StrToInt(x.s)) ELSE Raise("TypeError")
    ELSE IF x.kind = "int" THEN Return(x.n)
    ELSE Raise("TypeError")

\* Timestamp._validate_month
validate_month(month) ==
    IF ~(1 <= month /\ month <= MONTHS_IN_YEAR) THEN Raise("ValueError") ELSE Return(month)

\* Timestamp._total_months
total_months(years, months) == MONTHS_IN_YEAR * years + months

\* Timestamp._get_prior_month
get_prior_month_SameYear(year, month) ==
    Bind(validate_month(month), LAMBDA valid :
        IF ~valid.ok THEN valid
        ELSE IF month - 1 = 0 THEN Return(<<year, 12>>)
        ELSE Return(<<year, month - 1>>))

get_prior_month(year, month) ==
    Bind(validate_month(month), LAMBDA valid :
        IF ~valid.ok THEN valid
        ELSE IF month - 1 = 0 THEN Return(<<year - 1, 12>>)
        ELSE Return(<<year, month - 1>>))

\* Timestamp._normalize
normalize_(dt) == DT(dt.year, dt.month, dt.day, 0)

\* Timestamp.is_normalized
is_normalized(dt) == dt.hour = 0

\* Timestamp.last_day_of_month
last_day_of_month(dt) == days_in_month(dt.year, dt.month)

\* Timestamp.is_last_day_of_month
is_last_day_of_month(dt) == dt.day = last_day_of_month(dt)

\* Timestamp.is_month_end
is_month_end(dt) == is_last_day_of_month(dt)

\* Timestamp.is_quarter_end
is_quarter_end(dt) == is_month_end(dt) /\ \E i \in 1..Len(scheme) : scheme[i] = dt.month

-----------------------------------------------------------------------------
(* Constructor arguments: MonthEnd(arg, year=, month=, offset=, normalize=) *)
(* and QuarterEnd(arg, year=, month=, quarter=, offset=, normalize=).  arg, *)
(* year, month and quarter are None unless passed; so is format, the        *)
(* keyword both forward to Timestamp._to_datetime.                          *)

Args(arg, year, month, quarter, offset, normalize) ==
    [year |-> year, month |-> month, arg |-> arg, quarter |-> quarter,
     offset |-> offset, normalize |-> normalize, format |-> None]

\* the same call with format=fmt
WithFormat(a, fmt) == [a EXCEPT !.format = Some(fmt)]

\* cls(offset=n)
OffsetOnly(n) == Args(None, None, None, None, Int_(n), FALSE)

\* cls(year=y, month=m)
YearMonth(y, m) == Args(None, Some(Int_(y)), Some(Int_(m)), None, Int_(0), FALSE)

\* cls(dt) for a datetime dt
FromDatetime(dt) == Args(Some(Datetime_(dt)), None, None, None, Int_(0), FALSE)

\* MonthEnd._increment and QuarterEnd._increment
increment(cls) == IF cls = "QuarterEnd" THEN 3 ELSE 1

InScheme(month) == \E i \in 1..Len(scheme) : scheme[i] = month

\* tuple.__getitem__: Python indexing, negative indices counting from the end
PyIndex(tuple, i) ==
    IF 0 <= i /\ i < Len(tuple) THEN Return(tuple[i + 1])
    ELSE IF -Len(tuple) <= i /\ i < 0 THEN Return(tuple[Len(tuple) + i + 1])
    ELSE Raise("IndexError")

\* QuarterEnd.parse_label.extract_year_qtr, for a str: the year and the
\* quarter as text, or None
extract_year_qtr(x, clk) ==
    Bind(StrUpper(StrStrip(x)), LAMBDA s :
        IF Len(s) = 6 /\ StrIsDigit(SubSeq(s, 1, 4)) /\ s[5] = "Q" /\ IsDigitChar(s[6])
        THEN Some(<<SubSeq(s, 1, 4), <<s[6]>>>>)
        ELSE IF Len(s) = 4 /\ IsDigitChar(s[1]) /\ s[2] = "Q" /\ StrIsDigit(SubSeq(s, 3, 4))
        THEN Some(<<IntToStr(clk.year \div 100) \o SubSeq(s, 3, 4), <<s[1]>>>>)
        ELSE IF Len(s) = 2 /\ s[1] = "Q" /\ IsDigitChar(s[2])
        THEN Some(<<IntToStr(clk.year), <<s[2]>>>>)
        ELSE None)

\* QuarterEnd.parse_label: None, or (year, qtr)
parse_label_NoRange(x, clk) ==
    IF IsNone(x) THEN Return(None)
    ELSE IF Get(x).kind # "str" THEN Return(None)
    ELSE Bind(extract_year_qtr(Get(x).s, clk), LAMBDA parsed :
        IF IsNone(parsed) THEN Return(None)
        ELSE Bind(try_int(Str_(Get(parsed)[1])), LAMBDA year :
             Bind(try_int(Str_(Get(parsed)[2])), LAMBDA qtr :
                IF ~year.ok THEN year
                ELSE IF ~qtr.ok THEN qtr
                ELSE Return(Some(<<Val(year), Val(qtr)>>)))))

parse_label(x, clk) ==
    IF IsNone(x) THEN Return(None)
    ELSE IF Get(x).kind # "str" THEN Return(None)
    ELSE Bind(extract_year_qtr(Get(x).s, clk), LAMBDA parsed :
        IF IsNone(parsed) THEN Return(None)
        ELSE Bind(try_int(Str_(Get(parsed)[1])), LAMBDA year :
             Bind(try_int(Str_(Get(parsed)[2])), LAMBDA qtr :
                IF ~year.ok THEN year
                ELSE IF ~qtr.ok THEN qtr
                ELSE IF ~(1 <= Val(qtr) /\ Val(qtr) <= 4) THEN Raise("ValueError")
                ELSE Return(Some(<<Val(year), Val(qtr)>>)))))

\* MonthEnd._offset
MonthEnd__offset_NoWrap(year, month, offset) ==
    DivMod(total_months(year, month + offset), MONTHS_IN_YEAR)

MonthEnd__offset(year, month, offset) ==
    Bind(DivMod(total_months(year, month + offset), MONTHS_IN_YEAR), LAMBDA ym :
        IF ym[2] = 0 THEN <<ym[1] - 1, MONTHS_IN_YEAR>> ELSE ym)

\* QuarterEnd._backtrack_to_scheme
RECURSIVE backtrack_to_scheme(_, _)
backtrack_to_scheme(year, month) ==
    IF InScheme(month) THEN Return(<<year, month>>)
    ELSE Bind(get_prior_month(year, month), LAMBDA prior :
        IF ~prior.ok THEN prior
        ELSE backtrack_to_scheme(Val(prior)[1], Val(prior)[2]))

\* QuarterEnd._offset
QuarterEnd__offset(year, month, offset) ==
    Bind(backtrack_to_scheme(year, month), LAMBDA ym :
        IF ~ym.ok THEN ym
        ELSE Return(MonthEnd__offset(Val(ym)[1], Val(ym)[2], offset)))

\* self._offset(...), dispatched on the class of self
PeriodEnd__offset(cls, year, month, offset) ==
    IF cls = "QuarterEnd" THEN QuarterEnd__offset(year, month, offset)
    ELSE Return(MonthEnd__offset(year, month, offset))

\* MonthEnd._validate_instance: the error message, or None
MonthEnd__validate_instance(dt) ==
    IF ~is_last_day_of_month(dt) THEN Some("day is not the last day")
    ELSE IF ~is_normalized(dt) THEN Some("date must have no time component")
    ELSE None

\* QuarterEnd._validate_instance
QuarterEnd__validate_instance_NoScheme(dt) == MonthEnd__validate_instance(dt)

QuarterEnd__validate_instance(dt) ==
    IF ~InScheme(dt.month) THEN Some("month is not in scheme")
    ELSE MonthEnd__validate_instance(dt)

\* MonthEnd.validate_instance, dispatched on the class of self
validate_instance(cls, dt) ==
    IF ~IsNone(IF cls = "QuarterEnd" THEN QuarterEnd__validate_instance(dt)
               ELSE MonthEnd__validate_instance(dt))
    THEN Raise("ValueError")
    ELSE Return(Obj(cls, dt))

-----------------------------------------------------------------------------
(* Construction *)

\* calendar.day_name
day_name == <<
    <<"M","o","n","d","a","y">>,
    <<"T","u","e","s","d","a","y">>,
    <<"W","e","d","n","e","s","d","a","y">>,
    <<"T","h","u","r","s","d","a","y">>,
    <<"F","r","i","d","a","y">>,
    <<"S","a","t","u","r","d","a","y">>,
    <<"S","u","n","d","a","y">> >>

\* Timestamp._get_weekday_map and Timestamp.get_weekday_index: the index of
\* a full or three-letter weekday name, or None
get_weekday_index(weekday) ==
    Bind(StrTitle(weekday), LAMBDA key :
    Bind({i \in 1..7 : day_name[i] = key \/ SubSeq(day_name[i], 1, 3) = key}, LAMBDA hits :
        IF hits = {} THEN None ELSE Some((CHOOSE i \in hits : TRUE) - 1)))

\* dateutil.parser.parse, for the text 'YYYY-MM-DD'; any other text is not parsed
dateutil_parse(s) ==
    IF /\ Len(s) = 10
       /\ StrIsDigit(SubSeq(s, 1, 4) \o SubSeq(s, 6, 7) \o SubSeq(s, 9, 10))
       /\ s[5] = "-" /\ s[8] = "-"
    THEN Bind(DT(StrToInt(SubSeq(s, 1, 4)), StrToInt(SubSeq(s, 6, 7)),
                 StrToInt(SubSeq(s, 9, 10)), 0), LAMBDA dt :
            IF IsValidDT(dt) THEN Return(dt) ELSE Raise("ParserError"))
    ELSE Raise("ParserError")

\* the weekday names the directives %A and %a match, longest first
strptime_names(directive) ==
    IF directive = "A" THEN {StrLower(day_name[i]) : i \in 1..7}
    ELSE {StrLower(SubSeq(day_name[i], 1, 3)) : i \in 1..7}

\* the lengths of text a directive may consume, in the order the regular
\* expression of _strptime tries them
strptime_widths(directive, s) ==
    IF directive = "Y"
    THEN IF Len(s) >= 4 /\ StrIsDigit(SubSeq(s, 1, 4)) THEN <<4>> ELSE <<>>
    ELSE IF directive \in {"m", "d"}
    THEN (IF /\ Len(s) >= 2 /\ StrIsDigit(SubSeq(s, 1, 2))
             /\ StrToInt(SubSeq(s, 1, 2)) \in 1..(IF directive = "m" THEN 12 ELSE 31)
          THEN <<2>> ELSE <<>>)
         \o (IF Len(s) >= 1 /\ IsDigitChar(s[1]) /\ s[1] # "0" THEN <<1>> ELSE <<>>)
    ELSE IF directive \in {"A", "a"}
    THEN Bind({n \in 1..Len(s) : StrLower(SubSeq(s, 1, n)) \in strptime_names(directive)},
              LAMBDA ns : IF ns = {} THEN <<>>
                          ELSE <<CHOOSE n \in ns : \A m \in ns : m <= n>>)
    ELSE <<>>

\* the fields found so far, with the value a directive has read
strptime_set(found, directive, text) ==
    IF directive = "Y" THEN [found EXCEPT !.year = StrToInt(text)]
    ELSE IF directive = "m" THEN [found EXCEPT !.month = StrToInt(text)]
    ELSE IF directive = "d" THEN [found EXCEPT !.day = StrToInt(text)]
    ELSE found

\* _strptime: the regular expression built from the format, matched against
\* the whole string without regard to case; None when it does not match
RECURSIVE strptime_match(_, _, _)
RECURSIVE strptime_try(_, _, _, _)
strptime_try(s, format, found, widths) ==
    IF widths = <<>> THEN None
    ELSE Bind(strptime_match(SubSeq(s, Head(widths) + 1, Len(s)),
                             SubSeq(format, 3, Len(format)),
                             strptime_set(found, format[2], SubSeq(s, 1, Head(widths)))),
              LAMBDA rest :
                IF ~IsNone(rest) THEN rest
                ELSE strptime_try(s, format, found, Tail(widths)))

strptime_match(s, format, found) ==
    IF format = <<>> THEN (IF s = <<>> THEN Some(found) ELSE None)
    ELSE IF format[1] = "%"
    THEN IF Len(format) < 2 THEN None
         ELSE strptime_try(s, format, found, strptime_widths(format[2], s))
    ELSE IF s # <<>> /\ ToLower(s[1]) = ToLower(format[1])
    THEN strptime_match(Tail(s), Tail(format), found)
    ELSE None

\* datetime.datetime.strptime(arg, format): the fields the format does not
\* name default to 1900-01-01 00:00
strptime(arg, format) ==
    Bind(strptime_match(arg, format, DT(1900, 1, 1, 0)), LAMBDA found :
        IF IsNone(found) THEN Raise("ValueError")
        ELSE IF ~IsValidDT(Get(found)) THEN Raise("ValueError")
        ELSE Return(Get(found)))

RECURSIVE to_datetime(_, _, _, _)
RECURSIVE Timestamp__init__(_, _, _, _, _)
RECURSIVE MonthEnd__init__(_, _, _)
RECURSIVE QuarterEnd__init__(_, _)
RECURSIVE MonthEnd_relative_offset(_, _)
RECURSIVE MonthEnd_offset(_, _, _)

\* self.__class__(...) for a period-end class
New(cls, a, clk) ==
    IF cls = "QuarterEnd" THEN QuarterEnd__init__(a, clk)
    ELSE MonthEnd__init__(cls, a, clk)

\* Timestamp._to_datetime.try_weekday
try_weekday_Upcoming(arg, weeks, clk) ==
    Bind(get_weekday_index(arg), LAMBDA weekday :
        IF IsNone(weekday) THEN None
        ELSE Some(normalize_(AddDelta(clk, ((Get(weekday) - Weekday(clk)) % 7) + 7 * weeks, 0))))

try_weekday(arg, weeks, clk) ==
    Bind(get_weekday_index(arg), LAMBDA weekday :
        IF IsNone(weekday) THEN None
        ELSE Some(normalize_(AddDelta(clk, (Get(weekday) - Weekday(clk)) + 7 * weeks, 0))))

\* Timestamp._to_datetime.try_quarter_end
try_quarter_end(arg, offset, clk) ==
    Bind(parse_label(Some(Str_(arg)), clk), LAMBDA parsed :
        IF ~parsed.ok THEN parsed
        ELSE IF IsNone(Val(parsed)) THEN Return(None)
        ELSE Bind(QuarterEnd__init__(
                      Args(None, Some(Int_(Get(Val(parsed))[1])), None,
                           Some(Int_(Get(Val(parsed))[2])), Int_(offset), FALSE),
                      clk), LAMBDA qe :
                IF ~qe.ok THEN qe ELSE Return(Some(Val(qe).dt))))

\* Timestamp._to_datetime
to_datetime_FormatThird(arg, format, offset, clk) ==
    IF IsNone(arg) THEN Return(clk)
    ELSE IF Get(arg).kind = "str"
    THEN Bind(try_int(offset), LAMBDA off :
            IF ~off.ok THEN off
            ELSE Bind(try_weekday(Get(arg).s, Val(off), clk), LAMBDA wd :
                IF ~IsNone(wd) THEN Return(Get(wd))
                ELSE Bind(try_quarter_end(Get(arg).s, Val(off), clk), LAMBDA qe :
                    IF ~qe.ok THEN qe
                    ELSE IF ~IsNone(Val(qe)) THEN Return(Get(Val(qe)))
                    ELSE IF ~IsNone(format) THEN strptime(Get(arg).s, Get(format))
                    ELSE dateutil_parse(Get(arg).s))))
    ELSE IF Get(arg).kind = "datetime" THEN Return(Get(arg).dt)
    ELSE Raise("TypeError")

to_datetime(arg, format, offset, clk) ==
    IF IsNone(arg) THEN Return(clk)
    ELSE IF Get(arg).kind = "str"
    THEN IF ~IsNone(format) THEN strptime(Get(arg).s, Get(format))
         ELSE
         Bind(try_int(offset), LAMBDA off :
            IF ~off.ok THEN off
            ELSE Bind(try_weekday(Get(arg).s, Val(off), clk), LAMBDA wd :
                IF ~IsNone(wd) THEN Return(Get(wd))
                ELSE Bind(try_quarter_end(Get(arg).s, Val(off), clk), LAMBDA qe :
                    IF ~qe.ok THEN qe
                    ELSE IF ~IsNone(Val(qe)) THEN Return(Get(Val(qe)))
                    ELSE dateutil_parse(Get(arg).s))))
    ELSE IF Get(arg).kind = "datetime" THEN Return(Get(arg).dt)
    ELSE Raise("TypeError")

\* Timestamp.__init__: the datetime the new instance wraps
Timestamp__init__(arg, normalize, format, offset, clk) ==
    Bind(to_datetime(arg, format, offset, clk), LAMBDA dt :
        IF ~dt.ok THEN dt
        ELSE IF normalize THEN Return(normalize_(Val(dt)))
        ELSE dt)

\* MonthEnd.relative_offset
MonthEnd_relative_offset_CurrentMonth(self, clk) ==
    Bind(DivMod(total_months(self.dt.year, self.dt.month)
                - total_months(clk.year, clk.month), increment(self.cls)), LAMBDA qr :
        IF qr[2] = 0 THEN Return(qr[1]) ELSE Raise("ValueError"))

MonthEnd_relative_offset(self, clk) ==
    Bind(New(self.cls, OffsetOnly(0), clk), LAMBDA anchor :
        IF ~anchor.ok THEN anchor
        ELSE Bind(DivMod(total_months(self.dt.year, self.dt.month)
                         - total_months(Val(anchor).dt.year, Val(anchor).dt.month),
                         increment(self.cls)), LAMBDA qr :
                IF qr[2] = 0 THEN Return(qr[1]) ELSE Raise("ValueError")))

\* MonthEnd.offset: the instance 'out' it builds
MonthEnd_offset(self, periods, clk) ==
    IF periods.kind # "int" THEN Raise("TypeError")
    ELSE Bind(MonthEnd_relative_offset(self, clk), LAMBDA rel :
        IF ~rel.ok THEN rel
        ELSE MonthEnd__init__(self.cls, OffsetOnly(Val(rel) + periods.n), clk))

\* MonthEnd.__init__, lines 73-75: the year and month the clock gives
default_anchor_CurrentMonth(clk) == <<clk.year, clk.month>>

default_anchor(clk) == <<clk.year, clk.month - 1>>

\* MonthEnd.__init__, lines 69-84: the datetime built from year and month, or
\* from the clock
MonthEnd__init__anchor(cls, a, offset, clk) ==
    Bind(IF ~(IsNone(a.year) /\ IsNone(a.month))
         THEN IF IsNone(a.year) \/ IsNone(a.month) THEN Raise("TypeError")
              ELSE Bind(try_int(Get(a.year)), LAMBDA year :
                   Bind(try_int(Get(a.month)), LAMBDA month :
                      IF ~year.ok THEN year
                      ELSE IF ~month.ok THEN month
                      ELSE Bind(validate_month(Val(month)), LAMBDA valid :
                          IF ~valid.ok THEN valid
                          ELSE Return(<<Val(year), Val(month)>>))))
         ELSE Return(default_anchor(clk)), LAMBDA given :
        IF ~given.ok THEN given
        ELSE Bind(PeriodEnd__offset(cls, Val(given)[1], Val(given)[2],
                                    offset * increment(cls)), LAMBDA ym :
            IF ~ym.ok THEN ym
            ELSE Bind(DT(Val(ym)[1], Val(ym)[2],
                         days_in_month(Val(ym)[1], Val(ym)[2]), 0), LAMBDA dt :
                IF IsValidDT(dt) THEN Return(Some(Datetime_(dt)))
                ELSE Raise("ValueError"))))

\* MonthEnd.__init__, for an instance of class cls
MonthEnd__init__(cls, a, clk) ==
    Bind(try_int(a.offset), LAMBDA offset :
        IF ~offset.ok THEN offset
        ELSE Bind(IF ~IsNone(a.arg)
                  THEN IF ~(IsNone(a.year) /\ IsNone(a.month)) THEN Raise("ValueError")
                       ELSE Return(a.arg)
                  ELSE MonthEnd__init__anchor(cls, a, Val(offset), clk), LAMBDA arg :
            IF ~arg.ok THEN arg
            ELSE Bind(Timestamp__init__(Val(arg), a.normalize, a.format, Int_(0), clk),
                      LAMBDA dt :
                IF ~dt.ok THEN dt
                ELSE Bind(validate_instance(cls, Val(dt)), LAMBDA self :
                    IF ~self.ok THEN self
                    ELSE IF ~IsNone(a.arg) /\ Val(offset) # 0
                    THEN Bind(MonthEnd_offset(Val(self), Int_(Val(offset)), clk), LAMBDA out :
                            IF ~out.ok THEN out
                            ELSE Return(Obj(cls, Val(out).dt)))
                    ELSE self))))

\* QuarterEnd.__init__
QuarterEnd__init__(a, clk) ==
    Bind(parse_label(a.arg, clk), LAMBDA parsed :
        IF ~parsed.ok THEN parsed
        ELSE IF ~IsNone(Val(parsed)) /\ ~IsNone(a.year) THEN Raise("ValueError")
        ELSE Bind(IF IsNone(Val(parsed)) THEN a.quarter
                  ELSE Some(Int_(Get(Val(parsed))[2])), LAMBDA qtr :
             Bind(IF IsNone(qtr) THEN Return(a.month)
                  ELSE IF ~IsNone(a.month) THEN Raise("ValueError")
                  ELSE Bind(try_int(Get(qtr)), LAMBDA q :
                          IF ~q.ok THEN q
                          ELSE Bind(PyIndex(scheme, Val(q) - 1), LAMBDA m :
                              IF ~m.ok THEN m ELSE Return(Some(Int_(Val(m)))))),
                  LAMBDA month :
                IF ~month.ok THEN month
                ELSE MonthEnd__init__("QuarterEnd",
                        [Args(IF IsNone(Val(parsed)) THEN a.arg ELSE None,
                              IF IsNone(Val(parsed)) THEN a.year
                              ELSE Some(Int_(Get(Val(parsed))[1])),
                              Val(month), None, a.offset, a.normalize)
                            EXCEPT !.format = a.format],
                        clk))))

-----------------------------------------------------------------------------
(* QuarterEnd properties and the scheme *)

\* QuarterEnd.quarter (and its alias qtr): tuple.index raises ValueError
\* when the month is not in the scheme
QuarterEnd_quarter(self) ==
    IF InScheme(self.dt.month)
    THEN Return(CHOOSE i \in 1..Len(scheme) : scheme[i] = self.dt.month)
    ELSE Raise("ValueError")

\* QuarterEnd.long_label
QuarterEnd_long_label_TwoDigitYear(self) ==
    Bind(QuarterEnd_quarter(self), LAMBDA qtr :
        IF ~qtr.ok THEN qtr
        ELSE Return(StrYY(self.dt.year) \o <<"Q">> \o IntToStr(Val(qtr))))

QuarterEnd_long_label(self) ==
    Bind(QuarterEnd_quarter(self), LAMBDA qtr :
        IF ~qtr.ok THEN qtr
        ELSE Return(IntToStr(self.dt.year) \o <<"Q">> \o IntToStr(Val(qtr))))

\* QuarterEnd.compact_label
QuarterEnd_compact_label(self) ==
    Bind(QuarterEnd_quarter(self), LAMBDA qtr :
        IF ~qtr.ok THEN qtr
        ELSE Return(IntToStr(Val(qtr)) \o <<"Q">> \o StrYY(self.dt.year)))

\* QuarterEnd.short_label
QuarterEnd_short_label(self) ==
    Bind(QuarterEnd_quarter(self), LAMBDA qtr :
        IF ~qtr.ok THEN qtr
        ELSE Return(<<"Q">> \o IntToStr(Val(qtr))))

\* the first exception tuple(map(cls._try_int, value)) raises, if any
FirstRaise(outs) ==
    IF \E i \in 1..Len(outs) : ~outs[i].ok
    THEN Some(outs[CHOOSE i \in 1..Len(outs) :
                   ~outs[i].ok /\ \A j \in 1..(i - 1) : outs[j].ok])
    ELSE None

\* QuarterEnd.set_scheme, lines 163-182: the checks on the converted tuple
set_scheme_NoRange(value) ==
    IF ~(\A i \in 2..Len(value) : value[i] - value[i - 1] = 3) THEN Raise("ValueError")
    ELSE Return(value)

set_scheme_check(value) ==
    IF ~(\A i \in 2..Len(value) : value[i] - value[i - 1] = 3) THEN Raise("ValueError")
    ELSE IF ~(\A i \in 1..Len(value) : 1 <= value[i] /\ value[i] <= MONTHS_IN_YEAR)
    THEN Raise("ValueError")
    ELSE Return(value)

\* QuarterEnd.set_scheme: the tuple it assigns to cls.scheme.  value is a
\* record [type, items]: the Python type of the argument and its elements.
set_scheme(value) ==
    IF value.type # "tuple" THEN Raise("TypeError")
    ELSE IF Len(value.items) # 4 THEN Raise("ValueError")
    ELSE Bind([i \in 1..Len(value.items) |-> try_int(value.items[i])], LAMBDA outs :
         Bind(FirstRaise(outs), LAMBDA failed :
            IF ~IsNone(failed) THEN Get(failed)
            ELSE set_scheme_check([i \in 1..Len(outs) |-> Val(outs[i])])))

\* Timestamp.ymd: to_string('%Y-%m-%d')
Timestamp_ymd(self) ==
    StrPad(self.dt.year, 4) \o <<"-">> \o StrPad(self.dt.month, 2)
        \o <<"-">> \o StrPad(self.dt.day, 2)

\* Timestamp.__eq__: the wrapped datetimes are compared
Timestamp__eq__(self, other) == self.dt = other.dt

-----------------------------------------------------------------------------
(* In-place updates *)

\* the value a call without a return statement returns
NoneValue == Return(None)

\* the dt setter: the instance after 'self.dt = value'
dt_setter(self, value) ==
    IF value.kind = "datetime" THEN Return(Obj(self.cls, value.dt))
    ELSE Raise("TypeError")

\* self.__class__(dt) for a datetime dt
Construct(cls, dt, clk) ==
    IF cls = "Timestamp"
    THEN Bind(Timestamp__init__(Some(Datetime_(dt)), FALSE, None, Int_(0), clk), LAMBDA made :
            IF ~made.ok THEN made ELSE Return(Obj("Timestamp", Val(made))))
    ELSE New(cls, FromDatetime(dt), clk)

\* Timestamp.Decorators.enable_inplace.  dt is the outcome of the wrapped
\* function; the result is the receiver after the call and the outcome of
\* the call
enable_inplace_Always(self, dt, inplace, clk) ==
    IF ~dt.ok THEN [self |-> self, out |-> dt]
    ELSE Bind(dt_setter(self, Datetime_(Val(dt))), LAMBDA set :
            [self |-> IF set.ok THEN Val(set) ELSE self,
             out |-> IF ~set.ok THEN set
                     ELSE IF inplace THEN NoneValue
                     ELSE Construct(self.cls, Val(dt), clk)])

enable_inplace(self, dt, inplace, clk) ==
    IF ~dt.ok THEN [self |-> self, out |-> dt]
    ELSE IF inplace
    THEN Bind(dt_setter(self, Datetime_(Val(dt))), LAMBDA set :
            [self |-> IF set.ok THEN Val(set) ELSE self,
             out |-> IF set.ok THEN NoneValue ELSE set])
    ELSE [self |-> self, out |-> Construct(self.cls, Val(dt), clk)]

\* keyword arguments of datetime.replace: each None unless passed
ReplaceKw(year, month, day, hour) ==
    [year |-> year, month |-> month, day |-> day, hour |-> hour]

\* datetime.datetime.replace
datetime_replace(dt, kw) ==
    Bind(DT(IF IsNone(kw.year) THEN dt.year ELSE Get(kw.year),
            IF IsNone(kw.month) THEN dt.month ELSE Get(kw.month),
            IF IsNone(kw.day) THEN dt.day ELSE Get(kw.day),
            IF IsNone(kw.hour) THEN dt.hour ELSE Get(kw.hour)), LAMBDA out :
        IF IsValidDT(out) THEN Return(out) ELSE Raise("ValueError"))

\* Timestamp.replace
Timestamp_replace(self, kw, inplace, clk) ==
    enable_inplace(self, datetime_replace(self.dt, kw), inplace, clk)

\* Timestamp.normalize
Timestamp_normalize(self, inplace, clk) ==
    enable_inplace(self, Return(normalize_(self.dt)), inplace, clk)

\* MonthEnd.offset with its inplace flag: the receiver after the call and
\* the outcome of the call
MonthEnd_offset_inplace(self, periods, inplace, clk) ==
    Bind(MonthEnd_offset(self, periods, clk), LAMBDA out :
        IF ~out.ok THEN [self |-> self, out |-> out]
        ELSE IF inplace
        THEN Bind(dt_setter(self, Datetime_(Val(out).dt)), LAMBDA set :
                [self |-> IF set.ok THEN Val(set) ELSE self,
                 out |-> IF set.ok THEN NoneValue ELSE set])
        ELSE [self |-> self, out |-> out])

-----------------------------------------------------------------------------
(* Durations and arithmetic *)

\* keyword arguments of shift() and of a duration dict: each None unless passed
NoKw ==
    [years |-> None, months |-> None, weeks |-> None, relative |-> None,
     biz_days |-> None, days |-> None, hours |-> None]

KwGet(x) == IF IsNone(x) THEN 0 ELSE Get(x)

\* the 'other' operand of + and -: a number, a dict or a datetime
Num(n) == [dt |-> NoDT, n |-> n, kind |-> "int", kw |-> NoKw]
Dict(kw) == [dt |-> NoDT, n |-> 0, kind |-> "dict", kw |-> kw]
DateLike(dt) == [dt |-> dt, n |-> 0, kind |-> "datetime", kw |-> NoKw]

\* a datetime.timedelta or a dateutil relativedelta
Delta(relative, years, months, days, hours) ==
    [years |-> years, months |-> months, relative |-> relative,
     days |-> days, hours |-> hours]

\* Timestamp._build_delta, for a dict
build_delta(kwargs) ==
    IF /\ IsNone(kwargs.biz_days) /\ IsNone(kwargs.years) /\ IsNone(kwargs.months)
       /\ IsNone(kwargs.weeks) /\ IsNone(kwargs.days) /\ IsNone(kwargs.hours)
    THEN Raise("ValueError")
    ELSE IF ~IsNone(kwargs.biz_days) THEN Raise("TypeError")
    ELSE IF ~IsNone(kwargs.relative) /\ Get(kwargs.relative)
    THEN Return(Delta(TRUE, KwGet(kwargs.years), KwGet(kwargs.months),
                      7 * KwGet(kwargs.weeks) + KwGet(kwargs.days), KwGet(kwargs.hours)))
    ELSE IF ~IsNone(kwargs.years) \/ ~IsNone(kwargs.months) THEN Raise("TypeError")
    ELSE Return(Delta(FALSE, 0, 0,
                      7 * KwGet(kwargs.weeks) + KwGet(kwargs.days), KwGet(kwargs.hours)))

\* Timestamp._build_delta, for the 'other' operand
build_delta_other(other) ==
    IF other.kind = "dict" THEN build_delta(other.kw)
    ELSE IF other.kind = "int" THEN Return(Delta(FALSE, 0, 0, other.n, 0))
    ELSE Raise("TypeError")

\* datetime + delta: a relativedelta moves years and months first, keeping
\* the day within the month
dt_add(dt, delta) ==
    Bind(DivMod(total_months(dt.year + delta.years, dt.month - 1 + delta.months),
                MONTHS_IN_YEAR), LAMBDA ym :
        AddDelta(DT(ym[1], ym[2] + 1,
                    IF dt.day > days_in_month(ym[1], ym[2] + 1)
                    THEN days_in_month(ym[1], ym[2] + 1) ELSE dt.day,
                    dt.hour),
                 delta.days, delta.hours))

\* datetime - delta
dt_sub(dt, delta) ==
    dt_add(dt, Delta(delta.relative, -delta.years, -delta.months, -delta.days, -delta.hours))

\* datetime - datetime: a timedelta, [days, hours]
dt_diff(a, b) ==
    Bind((ToOrdinal(a) - ToOrdinal(b)) * 24 + (a.hour - b.hour), LAMBDA hours :
        [days |-> hours \div 24, hours |-> hours % 24])

\* Timestamp._make_base, called from an instance of class cls
make_base_SameClass(cls, dt) == Obj(cls, dt)

make_base(cls, dt) == Obj("Timestamp", dt)

\* Timestamp._shift
Timestamp__shift(self, kwargs) ==
    Bind(build_delta(kwargs), LAMBDA delta :
        IF ~delta.ok THEN delta
        ELSE Return(make_base(self.cls, dt_add(self.dt, Val(delta)))))

\* Timestamp.copy
Timestamp_copy(self, clk) == Construct(self.cls, self.dt, clk)

\* Timestamp.Decorators.other_to_delta around __add__, __sub__, __iadd__ and
\* __isub__ (name is 'add', 'sub', 'iadd' or 'isub'): the receiver after the
\* call and the outcome of the call
other_to_delta(self, name, other, clk) ==
    IF name \in {"sub", "isub"} /\ other.kind \notin {"dict", "int"}
    THEN Bind(to_datetime(Some(Datetime_(other.dt)), None, Int_(0), clk), LAMBDA odt :
            [self |-> self,
             out |-> IF ~odt.ok THEN odt
                     ELSE IF name = "sub" THEN Return(dt_diff(self.dt, Val(odt)))
                     ELSE Raise("TypeError")])
    ELSE Bind(build_delta_other(other), LAMBDA delta :
            IF ~delta.ok THEN [self |-> self, out |-> delta]
            ELSE Bind(IF name \in {"add", "iadd"} THEN dt_add(self.dt, Val(delta))
                      ELSE dt_sub(self.dt, Val(delta)), LAMBDA dt :
                    [self |-> IF name \in {"iadd", "isub"} THEN Obj(self.cls, dt) ELSE self,
                     out |-> Return(make_base(self.cls, dt))]))

-----------------------------------------------------------------------------
(* The business calendar *)

\* the n-th weekday wd of the month, and the last one
NthWeekday(dt, n, wd) == Weekday(dt) = wd /\ (dt.day - 1) \div 7 = n - 1
LastWeekday(dt, wd) == Weekday(dt) = wd /\ dt.day + 7 > days_in_month(dt.year, dt.month)

\* a holiday of fixed date, also observed on the Friday before a Saturday
\* and on the Monday after a Sunday
FixedHoliday(dt, month, day) ==
    \/ dt.month = month /\ dt.day = day
    \/ Weekday(dt) = 4 /\ Bind(AddDelta(dt, 1, 0), LAMBDA sat : sat.month = month /\ sat.day = day)
    \/ Weekday(dt) = 0 /\ Bind(AddDelta(dt, -1, 0), LAMBDA sun : sun.month = month /\ sun.day = day)

\* holidays.UnitedStates(): whether the date is a U.S. federal holiday
UnitedStates(dt) ==
    \/ FixedHoliday(dt, 1, 1)
    \/ dt.month = 1 /\ NthWeekday(dt, 3, 0)
    \/ dt.month = 2 /\ NthWeekday(dt, 3, 0)
    \/ dt.month = 5 /\ LastWeekday(dt, 0)
    \/ FixedHoliday(dt, 6, 19)
    \/ FixedHoliday(dt, 7, 4)
    \/ dt.month = 9 /\ NthWeekday(dt, 1, 0)
    \/ dt.month = 10 /\ NthWeekday(dt, 2, 0)
    \/ FixedHoliday(dt, 11, 11)
    \/ dt.month = 11 /\ NthWeekday(dt, 4, 3)
    \/ FixedHoliday(dt, 12, 25)

\* Timestamp.is_weekend
is_weekend(dt) == Weekday(dt) \in {5, 6}

\* Timestamp.is_holiday
is_holiday(dt) == UnitedStates(dt)

\* Timestamp.is_non_business_day
is_non_business_day(dt) == is_weekend(dt) \/ is_holiday(dt)

\* Timestamp.is_business_day
is_business_day(dt) == ~is_non_business_day(dt)

\* Timestamp.shift, lines 686-692: the business-day loop
RECURSIVE biz_loop_CountAll(_, _, _, _)
biz_loop_CountAll(obj, delta, counter, biz_days) ==
    IF ~(counter < Abs(biz_days)) THEN Return(obj)
    ELSE Bind(Timestamp__shift(obj, [NoKw EXCEPT !.days = Some(delta)]), LAMBDA next :
        IF ~next.ok THEN next
        ELSE biz_loop_CountAll(Val(next), delta, counter + 1, biz_days))

RECURSIVE biz_loop(_, _, _, _)
biz_loop(obj, delta, counter, biz_days) ==
    IF ~(counter < Abs(biz_days)) THEN Return(obj)
    ELSE Bind(Timestamp__shift(obj, [NoKw EXCEPT !.days = Some(delta)]), LAMBDA next :
        IF ~next.ok THEN next
        ELSE biz_loop(Val(next), delta,
                      IF is_business_day(Val(next).dt) THEN counter + 1 ELSE counter,
                      biz_days))

\* Timestamp.shift
Timestamp_shift(self, kwargs, clk) ==
    Bind(~(/\ IsNone(kwargs.relative) /\ IsNone(kwargs.years) /\ IsNone(kwargs.months)
           /\ IsNone(kwargs.weeks) /\ IsNone(kwargs.days) /\ IsNone(kwargs.hours)),
         LAMBDA nonempty :
    Bind(IF nonempty THEN Timestamp__shift(self, [kwargs EXCEPT !.biz_days = None])
         ELSE Timestamp_copy(self, clk), LAMBDA obj :
        IF ~obj.ok THEN obj
        ELSE IF IsNone(kwargs.biz_days)
        THEN IF nonempty THEN obj ELSE Raise("ValueError")
        ELSE biz_loop(Val(obj), Sign(Get(kwargs.biz_days)), 0, Get(kwargs.biz_days))))

\* getattr(obj, attr) for the attributes the skip methods test
skip_attr(attr, dt) ==
    IF attr = "is_weekend" THEN is_weekend(dt)
    ELSE IF attr = "is_holiday" THEN is_holiday(dt)
    ELSE is_non_business_day(dt)

\* Timestamp.Decorators.skip_shift, lines 139-142
skip_loop_SingleStep(obj, attr, delta, clk) ==
    IF ~skip_attr(attr, obj.dt) THEN Return(obj)
    ELSE Timestamp_shift(obj, [NoKw EXCEPT !.days = Some(delta)], clk)

RECURSIVE skip_loop(_, _, _, _)
skip_loop(obj, attr, delta, clk) ==
    IF ~skip_attr(attr, obj.dt) THEN Return(obj)
    ELSE Bind(Timestamp_shift(obj, [NoKw EXCEPT !.days = Some(delta)], clk), LAMBDA next :
        IF ~next.ok THEN next ELSE skip_loop(Val(next), attr, delta, clk))

\* Timestamp.Decorators.skip_shift around skip_weekends, skip_holidays and
\* skip_non_business_days (attr is the attribute the method tests)
skip_shift(self, attr, forward, clk) ==
    Bind(Timestamp_copy(self, clk), LAMBDA obj :
        IF ~obj.ok THEN obj
        ELSE skip_loop(Val(obj), attr, IF forward THEN 1 ELSE -1, clk))

\* Timestamp.last_month_end
Timestamp_last_month_end_AlwaysPrior(self, clk) ==
    Bind(get_prior_month(self.dt.year, self.dt.month), LAMBDA ym :
        IF ~ym.ok THEN ym
        ELSE MonthEnd__init__("MonthEnd", YearMonth(Val(ym)[1], Val(ym)[2]), clk))

Timestamp_last_month_end(self, clk) ==
    Bind(IF ~is_month_end(self.dt) THEN get_prior_month(self.dt.year, self.dt.month)
         ELSE Return(<<self.dt.year, self.dt.month>>), LAMBDA ym :
        IF ~ym.ok THEN ym
        ELSE MonthEnd__init__("MonthEnd", YearMonth(Val(ym)[1], Val(ym)[2]), clk))

\* Timestamp.last_quarter_end
Timestamp_last_quarter_end(self, clk) ==
    Bind(IF ~is_quarter_end(self.dt) THEN backtrack_to_scheme(self.dt.year, self.dt.month)
         ELSE Return(<<self.dt.year, self.dt.month>>), LAMBDA ym :
        IF ~ym.ok THEN ym
        ELSE QuarterEnd__init__(YearMonth(Val(ym)[1], Val(ym)[2]), clk))

\* Timestamp.next and Timestamp.last: the functions the decorator wraps
next_last_func_Strict(kind, x) ==
    IF kind = "next" THEN (IF x > 0 THEN 1 ELSE 0)
    ELSE (IF x < 0 THEN -1 ELSE 0)

next_last_func(kind, x) ==
    IF kind = "next" THEN (IF x >= 0 THEN 1 ELSE 0)
    ELSE (IF x <= 0 THEN -1 ELSE 0)

\* Timestamp.Decorators.handle_next_last around next and last
handle_next_last(self, kind, arg, offset, clk) ==
    IF arg.kind # "str" THEN Raise("TypeError")
    ELSE Bind(get_weekday_index(arg.s), LAMBDA target :
        IF ~IsNone(target)
        THEN Bind(Weekday(self.dt), LAMBDA actual :
             Bind(Timestamp_shift(self, [NoKw EXCEPT !.days = Some(-actual)], clk),
                  LAMBDA monday :
                IF ~monday.ok THEN monday
                ELSE Timestamp_shift(Val(monday),
                        [NoKw EXCEPT !.days = Some(Get(target)),
                                     !.weeks = Some(next_last_func(kind, actual - Get(target))
                                                    + offset)],
                        clk)))
        ELSE IF StrLower(arg.s) \in {<<"q", "e">>, <<"m", "e">>}
        THEN Bind(IF StrLower(arg.s) = <<"q", "e">> THEN Timestamp_last_quarter_end(self, clk)
                  ELSE Timestamp_last_month_end(self, clk), LAMBDA obj :
                IF ~obj.ok THEN obj
                ELSE MonthEnd_offset(Val(obj),
                                     Int_(IF kind = "next" THEN offset + 1 ELSE offset), clk))
        ELSE Raise("ValueError"))

\* Timestamp.Decorators.to_period_end around to_month_end and to_quarter_end
\* (kind is 'month' or 'quarter')
to_period_end_NeverStrict(self, kind, strict, clk) ==
    IF kind = "quarter" /\ ~strict THEN Raise("NotImplementedError")
    ELSE New(IF kind = "quarter" THEN "QuarterEnd" ELSE "MonthEnd",
             YearMonth(self.dt.year, self.dt.month), clk)

to_period_end(self, kind, strict, clk) ==
    IF kind = "quarter" /\ ~strict THEN Raise("NotImplementedError")
    ELSE IF strict /\ ~(IF kind = "quarter" THEN is_quarter_end(self.dt)
                        ELSE is_month_end(self.dt))
    THEN Raise("ValueError")
    ELSE New(IF kind = "quarter" THEN "QuarterEnd" ELSE "MonthEnd",
             YearMonth(self.dt.year, self.dt.month), clk)

-----------------------------------------------------------------------------
(* The operations of the model and their inputs *)

Periods == (-MaxPeriods)..MaxPeriods
Years == ClockYear..(ClockYear + YearSpan - 1)
WindowYears == ClockYear..(ClockYear + YearSpan)

\* str(ClockYear)
YYYY == IntToStr(ClockYear)

\* the argument of set_scheme
Tuple(items) == [type |-> "tuple", items |-> items]
List(items) == [type |-> "list", items |-> items]
IntItems(ns) == [i \in 1..Len(ns) |-> Int_(ns[i])]
StrItems(ns) == [i \in 1..Len(ns) |-> Str_(IntToStr(ns[i]))]

ValidSchemes == {<<1, 4, 7, 10>>, <<2, 5, 8, 11>>, <<3, 6, 9, 12>>}

\* tuples of four integers: every start and every mix of steps
FourInts == {<<a, a + p, a + p + q, a + p + q + r>> : a \in 0..4, p, q, r \in {3, 4}}

SchemeCalls ==
    {Tuple(IntItems(ns)) : ns \in FourInts}
    \cup {Tuple(IntItems(ns)) : ns \in {<<>>, <<3, 6, 9>>, <<3, 6, 9, 12, 15>>,
                                        <<12, 9, 6, 3>>, <<3, 3, 3, 3>>}}
    \cup {Tuple(StrItems(ns)) : ns \in {<<3, 6, 9, 12>>, <<1, 4, 7, 10>>, <<3, 6, 9, 13>>}}
    \cup {Tuple(<<Str_(<<"1">>), Int_(4), Int_(7), Int_(10)>>),
          Tuple(<<Str_(<<"Q", "1">>), Int_(6), Int_(9), Int_(12)>>),
          Tuple(<<Str_(<<"-", "1">>), Int_(2), Int_(5), Int_(8)>>),
          Tuple(<<Int_(2), Int_(5), Int_(8), Datetime_(DT(ClockYear, 11, 30, 0))>>)}
    \cup {List(IntItems(ns)) : ns \in ValidSchemes}

\* scalars passed as 'arg'
Scalar(arg, offset, normalize) == Args(Some(arg), None, None, None, Int_(offset), normalize)

MonthEndCalls ==
    {OffsetOnly(k) : k \in Periods \cup {-12, 12}}
    \cup {Args(None, None, None, None, Str_(<<"1">>), FALSE),
          Args(None, None, None, None, Str_(<<"-", "1">>), FALSE)}
    \cup {YearMonth(y, m) : y \in Years, m \in 0..13}
    \cup {Args(None, Some(Int_(y)), Some(Int_(m)), None, Int_(k), FALSE) :
            y \in Years, m \in {1, 12}, k \in Periods \ {0}}
    \cup {Args(None, Some(Str_(YYYY)), Some(Str_(<<"2">>)), None, Int_(0), FALSE),
          Args(None, Some(Int_(ClockYear)), None, None, Int_(0), FALSE),
          Args(None, None, Some(Int_(6)), None, Int_(0), FALSE),
          Args(Some(Datetime_(DT(ClockYear, 1, 31, 0))), Some(Int_(ClockYear)),
               Some(Int_(1)), None, Int_(0), FALSE)}
    \cup {Scalar(Datetime_(DT(ClockYear, 1, 31, 0)), k, FALSE) : k \in Periods}
    \cup {Scalar(Datetime_(DT(ClockYear, 1, 31, 9)), 0, n) : n \in BOOLEAN}
    \cup {Scalar(Datetime_(DT(ClockYear, 2, 15, 0)), 0, FALSE),
          Scalar(Str_(YYYY \o <<"-", "0", "4", "-", "3", "0">>), 0, FALSE),
          Scalar(Str_(YYYY \o <<"-", "0", "4", "-", "3", "1">>), 0, FALSE),
          Scalar(Str_(<<"f", "r", "i">>), 0, FALSE),
          Scalar(Str_(YYYY \o <<"Q", "1">>), 0, FALSE)}

QuarterEndCalls ==
    {OffsetOnly(k) : k \in Periods}
    \cup {YearMonth(y, m) : y \in Years, m \in 0..13}
    \cup {Args(None, Some(Int_(y)), Some(Int_(m)), None, Int_(k), FALSE) :
            y \in Years, m \in {1, 12}, k \in Periods \ {0}}
    \cup {Args(None, Some(Int_(y)), None, Some(Int_(q)), Int_(0), FALSE) :
            y \in Years, q \in (-4)..5}
    \cup {Args(None, Some(Int_(y)), None, Some(Int_(q)), Int_(k), FALSE) :
            y \in Years, q \in {1, 4}, k \in Periods \ {0}}
    \cup {Args(None, Some(Int_(ClockYear)), Some(Int_(3)), Some(Int_(1)), Int_(0), FALSE),
          Args(None, Some(Int_(ClockYear)), None, Some(Str_(<<"2">>)), Int_(0), FALSE),
          Args(None, None, None, Some(Int_(1)), Int_(0), FALSE),
          Args(Some(Str_(YYYY \o <<"Q", "3">>)), Some(Int_(ClockYear)), None, None,
               Int_(0), FALSE)}
    \cup {Scalar(Str_(YYYY \o <<"Q", "1">>), k, FALSE) : k \in Periods}
    \cup {Scalar(Str_(x), 0, FALSE) :
            x \in {<<"3", "Q">> \o StrYY(ClockYear), <<"Q", "4">>, <<"q", "2">>,
                   <<" ">> \o YYYY \o <<"q", "2", " ">>, YYYY \o <<"Q", "5">>,
                   <<"Q", "0">>, YYYY \o <<"-", "0", "6", "-", "3", "0">>,
                   <<"f", "r", "i">>}}
    \cup {Scalar(Datetime_(DT(ClockYear, 3, 31, 0)), k, FALSE) : k \in Periods}
    \cup {Scalar(Datetime_(DT(ClockYear, 3, 31, 9)), 0, n) : n \in BOOLEAN}
    \cup {Scalar(Datetime_(DT(ClockYear, 4, 30, 0)), 0, FALSE),
          Scalar(Datetime_(DT(ClockYear, 3, 15, 0)), 0, FALSE)}

\* the last operation: its name and its arguments, those it does not take
\* holding a filler
NoOp ==
    [a |-> OffsetOnly(0), arg |-> Str_(<<>>), key |-> <<"", "">>, periods |-> 0,
     value |-> Tuple(<<>>), other |-> Num(0), inplace |-> FALSE, kw |-> NoKw,
     name |-> "init", flag |-> FALSE,
     rkw |-> ReplaceKw(None, None, None, None), outcomes |-> <<>>]

\* TaskMaster before any job is added: no Task, no row in the jobs table,
\* nothing scheduled, TaskMaster.run not stopped by an exception
NoMaster ==
    [jobs |-> <<>>, db |-> <<>>, scheduler |-> <<>>, running |-> TRUE]

\* the outcome of the last operation: an exception, or a value of some kind
NoRes ==
    [ok |-> TRUE, err |-> "", n |-> 0, s |-> <<>>, kind |-> "None", obj |-> NoObj,
     td |-> [days |-> 0, hours |-> 0], pair |-> <<0, 0>>, ret |-> "", calls |-> 0]
Failed(r) == [NoRes EXCEPT !.ok = FALSE, !.err = r.err, !.kind = "error"]
ResNone(r) == IF r.ok THEN NoRes ELSE Failed(r)
ResObj(r) == IF r.ok THEN [NoRes EXCEPT !.kind = "obj", !.obj = Val(r)] ELSE Failed(r)
ResInt(r) == IF r.ok THEN [NoRes EXCEPT !.kind = "int", !.n = Val(r)] ELSE Failed(r)
ResStr(r) == IF r.ok THEN [NoRes EXCEPT !.kind = "str", !.s = Val(r)] ELSE Failed(r)
ResDelta(r) == IF r.ok THEN [NoRes EXCEPT !.kind = "timedelta", !.td = Val(r)] ELSE Failed(r)
\* the outcome of a call that returns None or a tuple of two integers
ResPair(r) ==
    IF ~r.ok THEN Failed(r)
    ELSE IF IsNone(Val(r)) THEN NoRes
    ELSE [NoRes EXCEPT !.kind = "tuple", !.pair = Get(Val(r))]

IsPeriodEnd(x) == x.cls \in {"MonthEnd", "QuarterEnd"}

\* where the wall clock starts, and how many times it has advanced since
ClockStart == DT(ClockYear, 11, 1, 9)
Ticks(clk) ==
    2 * (total_months(clk.year, clk.month) - total_months(ClockStart.year, ClockStart.month))
    + (IF clk.day = 1 THEN 0 ELSE 1)

-----------------------------------------------------------------------------
(* The period-end life cycle: the clock advances, the scheme is set, an *)
(* instance is constructed, offset and read                              *)

Init ==
    /\ now = ClockStart
    /\ scheme = <<3, 6, 9, 12>>
    /\ t = NoObj
    /\ op = NoOp
    /\ res = NoRes
    /\ master = NoMaster

\* datetime.datetime.now() moves on: from the first day of a month to its
\* last day, and from there to the first day of the next month
NextClock(clk) ==
    IF clk.day = 1
    THEN DT(clk.year, clk.month, days_in_month(clk.year, clk.month), clk.hour)
    ELSE AddDelta(clk, 1, 0)

Tick ==
    /\ Ticks(now) < MaxTicks
    /\ now' = NextClock(now)
    /\ op' = [NoOp EXCEPT !.name = "tick"]
    /\ res' = NoRes
    /\ UNCHANGED <<master, scheme, t>>

\* QuarterEnd.set_scheme(value)
SetScheme(value) ==
    /\ \E r \in {set_scheme(value)} :
        /\ scheme' = IF r.ok THEN Val(r) ELSE scheme
        /\ res' = ResNone(r)
    /\ op' = [NoOp EXCEPT !.name = "set_scheme", !.value = value]
    /\ UNCHANGED <<master, now, t>>

\* t = MonthEnd(arg, year=, month=, offset=, normalize=)
NewMonthEnd(a) ==
    /\ t = NoObj
    /\ \E r \in {MonthEnd__init__("MonthEnd", a, now)} :
        /\ t' = IF r.ok THEN Val(r) ELSE t
        /\ res' = ResObj(r)
    /\ op' = [NoOp EXCEPT !.name = "MonthEnd", !.a = a]
    /\ UNCHANGED <<master, now, scheme>>

\* t = QuarterEnd(arg, year=, month=, quarter=, offset=, normalize=)
NewQuarterEnd(a) ==
    /\ t = NoObj
    /\ \E r \in {QuarterEnd__init__(a, now)} :
        /\ t' = IF r.ok THEN Val(r) ELSE t
        /\ res' = ResObj(r)
    /\ op' = [NoOp EXCEPT !.name = "QuarterEnd", !.a = a]
    /\ UNCHANGED <<master, now, scheme>>

\* t.offset(periods, inplace=inplace)
Offset(periods, inplace) ==
    /\ IsPeriodEnd(t)
    /\ \E r \in {MonthEnd_offset_inplace(t, Int_(periods), inplace, now)} :
        /\ r.self.dt.year \in WindowYears
        /\ t' = r.self
        /\ res' = IF inplace THEN ResNone(r.out) ELSE ResObj(r.out)
    /\ op' = [NoOp EXCEPT !.name = "offset", !.periods = periods, !.inplace = inplace]
    /\ UNCHANGED <<master, now, scheme>>

\* t.relative_offset
ReadRelativeOffset ==
    /\ IsPeriodEnd(t)
    /\ res' = ResInt(MonthEnd_relative_offset(t, now))
    /\ op' = [NoOp EXCEPT !.name = "relative_offset"]
    /\ UNCHANGED <<master, now, scheme, t>>

\* t.quarter
ReadQuarter ==
    /\ t.cls = "QuarterEnd"
    /\ res' = ResInt(QuarterEnd_quarter(t))
    /\ op' = [NoOp EXCEPT !.name = "quarter"]
    /\ UNCHANGED <<master, now, scheme, t>>

\* t.long_label
ReadLongLabel ==
    /\ t.cls = "QuarterEnd"
    /\ res' = ResStr(QuarterEnd_long_label(t))
    /\ op' = [NoOp EXCEPT !.name = "long_label"]
    /\ UNCHANGED <<master, now, scheme, t>>

\* t.compact_label
ReadCompactLabel ==
    /\ t.cls = "QuarterEnd"
    /\ res' = ResStr(QuarterEnd_compact_label(t))
    /\ op' = [NoOp EXCEPT !.name = "compact_label"]
    /\ UNCHANGED <<master, now, scheme, t>>

\* t.short_label
ReadShortLabel ==
    /\ t.cls = "QuarterEnd"
    /\ res' = ResStr(QuarterEnd_short_label(t))
    /\ op' = [NoOp EXCEPT !.name = "short_label"]
    /\ UNCHANGED <<master, now, scheme, t>>

Next ==
    \/ Tick
    \/ \E ns \in ValidSchemes : SetScheme(Tuple(IntItems(ns)))
    \/ \E a \in MonthEndCalls : NewMonthEnd(a)
    \/ \E a \in QuarterEndCalls : NewQuarterEnd(a)
    \/ \E periods \in Periods, inplace \in BOOLEAN : Offset(periods, inplace)
    \/ ReadRelativeOffset
    \/ ReadQuarter
    \/ ReadLongLabel
    \/ ReadCompactLabel
    \/ ReadShortLabel

Spec == Init /\ [][Next]_vars

-----------------------------------------------------------------------------
(* The scheme alone: set_scheme called with any value *)

NextScheme == \E value \in SchemeCalls : SetScheme(value)

SpecScheme == Init /\ [][NextScheme]_vars

-----------------------------------------------------------------------------
(* Arithmetic and in-place updates on a receiver of any class *)

\* the receivers the operations start from: a Saturday morning, a holiday,
\* two month ends and a quarter end
Receivers ==
    {Obj("Timestamp", DT(ClockYear, 1, 13, 9)),
     Obj("Timestamp", DT(ClockYear, 7, 4, 0)),
     Obj("MonthEnd", DT(ClockYear, 1, 31, 0)),
     Obj("MonthEnd", DT(ClockYear, 2, days_in_month(ClockYear, 2), 0)),
     Obj("QuarterEnd", DT(ClockYear, 3, 31, 0))}

\* how far an in-place update may take a receiver
InWindow(dt) ==
    /\ dt.hour \in {0, 9}
    /\ \E r \in Receivers : Abs(ToOrdinal(dt) - ToOrdinal(r.dt)) <= WindowDays

\* keyword arguments passed to shift()
ShiftCalls ==
    {NoKw,
     [NoKw EXCEPT !.relative = Some(TRUE)],
     [NoKw EXCEPT !.days = Some(1)],
     [NoKw EXCEPT !.days = Some(-1)],
     [NoKw EXCEPT !.hours = Some(15)],
     [NoKw EXCEPT !.weeks = Some(1), !.days = Some(-7)],
     [NoKw EXCEPT !.months = Some(1)],
     [NoKw EXCEPT !.relative = Some(TRUE), !.months = Some(1)],
     [NoKw EXCEPT !.relative = Some(TRUE), !.years = Some(-1), !.days = Some(1)],
     [NoKw EXCEPT !.biz_days = Some(0)],
     [NoKw EXCEPT !.biz_days = Some(1)],
     [NoKw EXCEPT !.biz_days = Some(2)],
     [NoKw EXCEPT !.biz_days = Some(3)],
     [NoKw EXCEPT !.biz_days = Some(-2)],
     [NoKw EXCEPT !.biz_days = Some(-1), !.days = Some(1)]}

\* the 'other' operand of +, -, += and -=
Others ==
    {Num(1), Num(-1), Num(0),
     Dict([NoKw EXCEPT !.hours = Some(9)]),
     Dict([NoKw EXCEPT !.relative = Some(TRUE), !.months = Some(1)]),
     Dict(NoKw),
     DateLike(DT(ClockYear, 1, 1, 0))}

\* keyword arguments passed to replace()
ReplaceCalls ==
    {ReplaceKw(None, None, Some(1), None),
     ReplaceKw(None, None, Some(31), None),
     ReplaceKw(None, None, None, Some(9)),
     ReplaceKw(None, Some(2), None, None)}

\* values assigned through the dt setter
DtValues ==
    {Datetime_(DT(ClockYear, 1, 31, 0)),
     Datetime_(DT(ClockYear, 2, 1, 9)),
     Str_(YYYY \o <<"-", "0", "1", "-", "3", "1">>)}

\* arguments passed to next() and last()
NextLastArgs ==
    {Str_(<<"f", "r", "i">>), Str_(<<"M", "o", "n", "d", "a", "y">>),
     Str_(<<"q", "e">>), Str_(<<"M", "E">>), Str_(<<"e", "o", "m">>)}

InitArith ==
    /\ now = ClockStart
    /\ scheme = <<3, 6, 9, 12>>
    /\ t \in Receivers
    /\ op = NoOp
    /\ res = NoRes
    /\ master = NoMaster

\* t.shift(**kwargs)
Shift(kwargs) ==
    /\ res' = ResObj(Timestamp_shift(t, kwargs, now))
    /\ op' = [NoOp EXCEPT !.name = "shift", !.kw = kwargs]
    /\ UNCHANGED <<master, now, scheme, t>>

\* t + other
Add(other) ==
    /\ \E r \in {other_to_delta(t, "add", other, now)} :
        /\ t' = r.self
        /\ res' = ResObj(r.out)
    /\ op' = [NoOp EXCEPT !.name = "add", !.other = other]
    /\ UNCHANGED <<master, now, scheme>>

\* t - other
Sub(other) ==
    /\ \E r \in {other_to_delta(t, "sub", other, now)} :
        /\ t' = r.self
        /\ res' = IF other.kind \in {"dict", "int"} THEN ResObj(r.out) ELSE ResDelta(r.out)
    /\ op' = [NoOp EXCEPT !.name = "sub", !.other = other]
    /\ UNCHANGED <<master, now, scheme>>

\* t += other: t is the instance the operator is called on, the outcome is
\* what the name is bound to afterwards
IAdd(other) ==
    /\ \E r \in {other_to_delta(t, "iadd", other, now)} :
        /\ InWindow(r.self.dt)
        /\ t' = r.self
        /\ res' = ResObj(r.out)
    /\ op' = [NoOp EXCEPT !.name = "iadd", !.other = other, !.inplace = TRUE]
    /\ UNCHANGED <<master, now, scheme>>

\* t -= other
ISub(other) ==
    /\ \E r \in {other_to_delta(t, "isub", other, now)} :
        /\ InWindow(r.self.dt)
        /\ t' = r.self
        /\ res' = ResObj(r.out)
    /\ op' = [NoOp EXCEPT !.name = "isub", !.other = other, !.inplace = TRUE]
    /\ UNCHANGED <<master, now, scheme>>

\* t.replace(**kw, inplace=inplace)
Replace(kw, inplace) ==
    /\ \E r \in {Timestamp_replace(t, kw, inplace, now)} :
        /\ InWindow(r.self.dt)
        /\ t' = r.self
        /\ res' = IF inplace THEN ResNone(r.out) ELSE ResObj(r.out)
    /\ op' = [NoOp EXCEPT !.name = "replace", !.rkw = kw, !.inplace = inplace]
    /\ UNCHANGED <<master, now, scheme>>

\* t.normalize(inplace=inplace)
Normalize(inplace) ==
    /\ \E r \in {Timestamp_normalize(t, inplace, now)} :
        /\ InWindow(r.self.dt)
        /\ t' = r.self
        /\ res' = IF inplace THEN ResNone(r.out) ELSE ResObj(r.out)
    /\ op' = [NoOp EXCEPT !.name = "normalize", !.inplace = inplace]
    /\ UNCHANGED <<master, now, scheme>>

\* t.dt = value
SetDt(value) ==
    /\ \E r \in {dt_setter(t, value)} :
        /\ r.ok => InWindow(Val(r).dt)
        /\ t' = IF r.ok THEN Val(r) ELSE t
        /\ res' = ResNone(r)
    /\ op' = [NoOp EXCEPT !.name = "dt", !.arg = value, !.inplace = TRUE]
    /\ UNCHANGED <<master, now, scheme>>

\* t.copy()
Copy ==
    /\ res' = ResObj(Timestamp_copy(t, now))
    /\ op' = [NoOp EXCEPT !.name = "copy"]
    /\ UNCHANGED <<master, now, scheme, t>>

\* t.skip_weekends(forward)
SkipWeekends(forward) ==
    /\ res' = ResObj(skip_shift(t, "is_weekend", forward, now))
    /\ op' = [NoOp EXCEPT !.name = "skip_weekends", !.flag = forward]
    /\ UNCHANGED <<master, now, scheme, t>>

\* t.skip_holidays(forward)
SkipHolidays(forward) ==
    /\ res' = ResObj(skip_shift(t, "is_holiday", forward, now))
    /\ op' = [NoOp EXCEPT !.name = "skip_holidays", !.flag = forward]
    /\ UNCHANGED <<master, now, scheme, t>>

\* t.skip_non_business_days(forward)
SkipNonBusinessDays(forward) ==
    /\ res' = ResObj(skip_shift(t, "is_non_business_day", forward, now))
    /\ op' = [NoOp EXCEPT !.name = "skip_non_business_days", !.flag = forward]
    /\ UNCHANGED <<master, now, scheme, t>>

\* t.next(arg, offset) and t.last(arg, offset)
NextLast(kind, arg, offset) ==
    /\ res' = ResObj(handle_next_last(t, kind, arg, offset, now))
    /\ op' = [NoOp EXCEPT !.name = kind, !.arg = arg, !.periods = offset]
    /\ UNCHANGED <<master, now, scheme, t>>

\* t.to_month_end(strict)
ToMonthEnd(strict) ==
    /\ res' = ResObj(to_period_end(t, "month", strict, now))
    /\ op' = [NoOp EXCEPT !.name = "to_month_end", !.flag = strict]
    /\ UNCHANGED <<master, now, scheme, t>>

\* t.to_quarter_end(strict)
ToQuarterEnd(strict) ==
    /\ res' = ResObj(to_period_end(t, "quarter", strict, now))
    /\ op' = [NoOp EXCEPT !.name = "to_quarter_end", !.flag = strict]
    /\ UNCHANGED <<master, now, scheme, t>>

NextArith ==
    \/ \E kwargs \in ShiftCalls : Shift(kwargs)
    \/ \E other \in Others : Add(other)
    \/ \E other \in Others : Sub(other)
    \/ \E other \in Others : IAdd(other)
    \/ \E other \in Others : ISub(other)
    \/ \E kw \in ReplaceCalls, inplace \in BOOLEAN : Replace(kw, inplace)
    \/ \E inplace \in BOOLEAN : Normalize(inplace)
    \/ \E value \in DtValues : SetDt(value)
    \/ Copy
    \/ \E forward \in BOOLEAN : SkipWeekends(forward)
    \/ \E forward \in BOOLEAN : SkipHolidays(forward)
    \/ \E forward \in BOOLEAN : SkipNonBusinessDays(forward)
    \/ \E arg \in NextLastArgs, offset \in {-1, 0, 1} : NextLast("next", arg, offset)
    \/ \E arg \in NextLastArgs, offset \in {-1, 0, 1} : NextLast("last", arg, offset)
    \/ \E strict \in BOOLEAN : ToMonthEnd(strict)
    \/ \E strict \in BOOLEAN : ToQuarterEnd(strict)
    \/ \E periods \in Periods, inplace \in BOOLEAN : Offset(periods, inplace) /\ InWindow(t'.dt)

SpecArith == InitArith /\ [][NextArith]_vars

-----------------------------------------------------------------------------
(* Construction from scalars, label parsing and period-end conversion, at *)
(* any day of a week and across the turn of the year                       *)

\* how many consecutive days, from ClockStart on, the clock may show
ClockDays == 7

\* what the wall clock may show
ParseClocks ==
    {AddDelta(ClockStart, d, 0) : d \in 0..(ClockDays - 1)}
    \cup {DT(ClockYear, 12, 31, 23), DT(ClockYear + 1, 1, 1, 0)}

\* week offsets passed to Timestamp(arg, offset=)
Weeks == {-1, 0, 1, 9}

\* weekday names, in full or three letters, in any letter case
WeekdayTexts ==
    {<<"F","r","i","d","a","y">>, <<"f","r","i">>, <<"F","R","I","D","A","Y">>,
     <<"m","O","n">>, <<"s","u","n","d","a","y">>, <<"S","u","n">>,
     <<"w","e","d">>, <<"T","H","U">>, <<"t","u","e","s","d","a","y">>,
     <<"S","a","t","u","r","d","a","y">>, <<"M","o","n","d","a","y">>}

\* quarter labels, texts that are nearly one, and other texts
LabelTexts ==
    {YYYY \o <<"Q", "1">>, YYYY \o <<"q", "4">>, <<"1", "9", "9", "9", "Q", "3">>,
     <<"1", "Q", "2", "5">>, <<"4", "q", "0", "7">>, <<"Q", "4">>, <<"q", "2">>,
     YYYY \o <<"Q", "5">>, <<"Q", "0">>, <<"0", "Q", "2", "5">>, <<"9", "q", "9", "9">>,
     <<" ">> \o YYYY \o <<"q", "2", " ">>, <<" ", "Q", "3">>,
     <<"a", "b", "c">>, <<>>, <<"Q">>, <<"Q", "1", "2">>, <<"2", "4", "Q", "1">>,
     YYYY \o <<"Q", "1", "x">>, <<"x">> \o YYYY \o <<"Q", "1">>, YYYY \o <<"-", "Q", "1">>,
     <<"1", "Q", "2", "0", "2", "5">>, <<"f", "r", "i">>}

\* dates as text
DateTexts ==
    {YYYY \o <<"-", "0", "6", "-", "3", "0">>,
     YYYY \o <<"-", "0", "4", "-", "3", "0">>,
     YYYY \o <<"-", "0", "4", "-", "1", "5">>,
     YYYY \o <<"-", "0", "2", "-", "3", "0">>}

\* format strings
FormatYmd == <<"%", "Y", "-", "%", "m", "-", "%", "d">>
FormatCompact == <<"%", "Y", "%", "m", "%", "d">>
FormatDayName == <<"%", "A">>
FormatYearQMonth == <<"%", "Y", "Q", "%", "m">>

\* Timestamp(arg, normalize=, format=, offset=)
TimestampCalls ==
    {Scalar(Str_(x), w, FALSE) : x \in WeekdayTexts, w \in Weeks}
    \cup {Scalar(Str_(x), 0, FALSE) :
            x \in DateTexts \cup {<<"F","r","i","d">>, <<"F","r","i","d","a","y","s">>, <<>>}}
    \cup {Scalar(Str_(x), k, FALSE) :
            x \in {YYYY \o <<"Q", "1">>, <<"1", "Q", "2", "5">>, <<"Q", "4">>,
                   YYYY \o <<"Q", "5">>},
            k \in {0, 1}}
    \cup {Args(Some(Str_(<<"f","r","i">>)), None, None, None, Str_(<<"1">>), FALSE),
          Args(Some(Str_(<<"f","r","i">>)), None, None, None, Str_(<<"-", "1">>), FALSE),
          Args(None, None, None, None, Int_(0), FALSE),
          Args(None, None, None, None, Int_(0), TRUE)}
    \cup {WithFormat(Scalar(Str_(x), w, FALSE), f) :
            x \in {<<"F","r","i","d","a","y">>, <<"m","O","n">>},
            w \in {0, 1},
            f \in {FormatDayName, FormatYmd}}
    \cup {WithFormat(Scalar(Str_(x), 0, FALSE), f) :
            x \in {YYYY \o <<"Q", "1">>, YYYY \o <<"-", "0", "6", "-", "3", "0">>,
                   YYYY \o <<"0", "6", "3", "0">>, YYYY \o <<"-", "6", "-", "3">>,
                   YYYY \o <<"1", "1", "1">>},
            f \in {FormatYmd, FormatCompact, FormatYearQMonth}}
    \cup {Scalar(Datetime_(DT(ClockYear, 3, 31, 9)), 0, n) : n \in BOOLEAN}
    \cup {WithFormat(Scalar(Datetime_(DT(ClockYear, 5, 31, 9)), 0, FALSE), FormatYmd)}

\* the argument of parse_label: a text, or something that is no text
LabelCalls ==
    {Some(Str_(x)) : x \in LabelTexts}
    \cup {None, Some(Int_(ClockYear)), Some(Datetime_(DT(ClockYear, 3, 31, 0)))}

InitParse ==
    /\ now \in ParseClocks
    /\ scheme = <<3, 6, 9, 12>>
    /\ t = NoObj
    /\ op = NoOp
    /\ res = NoRes
    /\ master = NoMaster

\* t = Timestamp(arg, normalize=, format=, offset=)
NewTimestamp(a) ==
    /\ t = NoObj
    /\ \E r \in {Timestamp__init__(a.arg, a.normalize, a.format, a.offset, now)} :
        /\ t' = IF r.ok THEN Obj("Timestamp", Val(r)) ELSE t
        /\ res' = ResObj(IF r.ok THEN Return(Obj("Timestamp", Val(r))) ELSE r)
    /\ op' = [NoOp EXCEPT !.name = "Timestamp", !.a = a]
    /\ UNCHANGED <<master, now, scheme>>

\* QuarterEnd.parse_label(x)
ParseLabel(x) ==
    /\ res' = ResPair(parse_label(x, now))
    /\ op' = [NoOp EXCEPT !.name = "parse_label",
                          !.a = Args(x, None, None, None, Int_(0), FALSE)]
    /\ UNCHANGED <<master, now, scheme, t>>

NextParse ==
    \/ \E a \in TimestampCalls : NewTimestamp(a)
    \/ \E x \in LabelCalls : ParseLabel(x)

SpecParse == InitParse /\ [][NextParse]_vars

-----------------------------------------------------------------------------
(* Period-end conversion of a value of any class, under any scheme *)

\* the values converted: Timestamps on and off a month end, with and without
\* a time of day, and period ends
ConvertReceivers ==
    {Obj("Timestamp", dt) :
        dt \in {DT(ClockYear, 3, 31, 9), DT(ClockYear, 3, 31, 0), DT(ClockYear, 4, 30, 0),
                DT(ClockYear, 4, 30, 9), DT(ClockYear, 5, 15, 0), DT(ClockYear, 2, 28, 0),
                DT(ClockYear, 2, 29, 0), DT(ClockYear, 12, 31, 0), DT(ClockYear, 1, 1, 0)}}
    \cup {Obj("MonthEnd", DT(ClockYear, 3, 31, 0)), Obj("MonthEnd", DT(ClockYear, 4, 30, 0)),
          Obj("QuarterEnd", DT(ClockYear, 3, 31, 0))}

InitConvert ==
    /\ now \in {ClockStart, DT(ClockYear + 1, 1, 1, 0)}
    /\ scheme = <<3, 6, 9, 12>>
    /\ t \in {r \in ConvertReceivers : IsValidDT(r.dt)}
    /\ op = NoOp
    /\ res = NoRes
    /\ master = NoMaster

-----------------------------------------------------------------------------
(* The job runner: src/clockwork/taskmaster.  A job is known by its key     *)
(* (name, at).  master.jobs maps a key to its Task, master.db maps a key to *)
(* its row [active, status] of the jobs table, master.scheduler maps a key  *)
(* to the schedule.Job that runs the Task, and master.running is FALSE once *)
(* an exception has left TaskMaster.run.  A step of the retry loop yields   *)
(* [m, exc, ret, calls]: TaskMaster, the exception in flight ("" if none),  *)
(* the value returned and the number of calls of func made so far.          *)

\* the retry loop of one invocation calls func at most this many times
MaxAttempts == 2

\* Task.cascade_status
cascade_status == "cancelled on cascade"

\* the attributes a Task has: those Task.__init__ sets, the class attributes
\* of Task, and master, assigned at the end of taskmaster.py
TaskAttributes ==
    {"name", "at", "expiry", "func", "args", "kwargs", "cancel_on_failure",
     "cancel_on_completion", "notify_on_failure", "cascade",
     "restrict_to_business_hours", "restrict_to_business_days", "attempts", "status",
     "verbose", "disable_print", "cascade_status", "master"}

\* the keyword arguments of Task.__init__ at their defaults
TaskKw ==
    [cancel_on_failure |-> FALSE, cancel_on_completion |-> FALSE,
     notify_on_failure |-> FALSE, restrict_to_business_hours |-> FALSE,
     restrict_to_business_days |-> FALSE, cascade |-> TRUE, attempts |-> 1]

\* Task.__init__
Task__init__(name, at, expiry, kw) ==
    [name |-> name,
     cancel_on_failure |-> kw.cancel_on_failure,
     cancel_on_completion |-> kw.cancel_on_completion,
     notify_on_failure |-> kw.notify_on_failure,
     restrict_to_business_hours |-> kw.restrict_to_business_hours,
     restrict_to_business_days |-> kw.restrict_to_business_days,
     cascade |-> kw.cascade,
     attempts |-> kw.attempts,
     at |-> at,
     expiry |-> expiry,
     status |-> None]

\* datetime.datetime.__lt__
DtLess(a, b) == ToOrdinal(a) * 24 + a.hour < ToOrdinal(b) * 24 + b.hour

\* Timestamp.is_business_hours
is_business_hours(dt) == is_business_day(dt) /\ 8 <= dt.hour /\ dt.hour <= 17

\* TaskMaster.is_active(name, at): a missing row counts as active
is_active(m, name, at) ==
    ~(<<name, at>> \in DOMAIN m.db /\ m.db[<<name, at>>].active = 0)

\* TaskMaster.set_inactive
set_inactive(m, name, status) ==
    [m EXCEPT !.db = [k \in DOMAIN m.db |->
        IF k[1] = name
        THEN [status |-> IF IsNone(status) THEN Some("manual intervention") ELSE status,
              active |-> 0]
        ELSE m.db[k]]]

\* Task.update_table, lines 133-147 once self.db is found: the row of the
\* job, then with cascade the other rows of its name and every Task of its
\* name in master.jobs
update_table_rows(m, key, active) ==
    LET self == m.jobs[key]
        own == [m EXCEPT !.db = [k \in DOMAIN m.db |->
                    IF k = key THEN [status |-> self.status, active |-> active]
                    ELSE m.db[k]]]
    IN  IF ~self.cascade THEN own
        ELSE [own EXCEPT
                !.db = [k \in DOMAIN own.db |->
                    IF k[1] = self.name /\ k[2] # self.at
                    THEN [status |-> Some(cascade_status), active |-> active]
                    ELSE own.db[k]],
                !.jobs = [k \in DOMAIN own.jobs |->
                    IF k[1] = self.name
                    THEN [own.jobs[k] EXCEPT !.status = Some(cascade_status)]
                    ELSE own.jobs[k]]]

\* Task.update_table: line 136 reads self.db before any row is written
update_table(m, key, active) ==
    IF "db" \notin TaskAttributes THEN [m |-> m, exc |-> "AttributeError"]
    ELSE [m |-> update_table_rows(m, key, active), exc |-> ""]

\* Task.__call__.update_status
update_status(m, key, status, set_inactive_) ==
    update_table([m EXCEPT !.jobs[key].status = Some(status)], key,
                 IF set_inactive_ THEN 0 ELSE 1)

\* the outcome of an invocation that returns ret or lets exc escape
Outcome(m, exc, ret, calls) == [m |-> m, ret |-> ret, calls |-> calls, exc |-> exc]

\* Task.__call__, lines 181-243: the retry loop.  outcomes[i] is what the
\* i-th call of func does: "out" (it returns), "error" (it raises an
\* exception that is not a PrerequisiteError) or "prereq" (it raises
\* PrerequisiteError).
RECURSIVE attempt_loop(_, _, _, _, _)
RECURSIVE on_exception(_, _, _, _, _)

\* lines 214-243: the except clause, for an exception that is not a
\* PrerequisiteError
on_exception(m, key, clk, outcomes, calls) ==
    LET self == m.jobs[key]
        attempts == IF self.attempts > 0 THEN self.attempts - 1 ELSE self.attempts
        cancel_on_failure == (attempts = 0)
        m1 == [m EXCEPT !.jobs[key].attempts = attempts,
                        !.jobs[key].cancel_on_failure = cancel_on_failure]
    IN  IF attempts > 0 THEN attempt_loop(m1, key, clk, outcomes, calls)
        ELSE IF cancel_on_failure
        THEN Bind(update_status(m1, key, "cancelled on failure", FALSE), LAMBDA us :
                IF us.exc # "" THEN Outcome(us.m, us.exc, "", calls)
                ELSE IF self.notify_on_failure
                THEN Outcome(us.m, "NotImplementedError", "", calls)
                ELSE Outcome(us.m, "", "CancelJob", calls))
        ELSE Outcome(m1, "", "ContinueFailedJob", calls)

\* lines 181-212: the try clause
attempt_loop_PrereqCounts(m, key, clk, outcomes, calls) ==
    LET self == m.jobs[key] IN
    IF self.restrict_to_business_hours /\ ~is_business_hours(clk)
    THEN on_exception(m, key, clk, outcomes, calls)
    ELSE IF self.restrict_to_business_days /\ ~is_business_day(clk)
    THEN on_exception(m, key, clk, outcomes, calls)
    ELSE IF outcomes[calls + 1] \in {"prereq", "error"}
    THEN on_exception(m, key, clk, outcomes, calls + 1)
    ELSE IF self.cancel_on_completion
    THEN Bind(update_status(m, key, "cancelled on completion", TRUE), LAMBDA us :
            IF us.exc # "" THEN on_exception(us.m, key, clk, outcomes, calls + 1)
            ELSE Outcome(us.m, "", "CancelJob", calls + 1))
    ELSE Outcome(m, "", "out", calls + 1)

attempt_loop(m, key, clk, outcomes, calls) ==
    LET self == m.jobs[key] IN
    IF self.restrict_to_business_hours /\ ~is_business_hours(clk)
    THEN Outcome(m, "", "ContinueFailedJob", calls)
    ELSE IF self.restrict_to_business_days /\ ~is_business_day(clk)
    THEN Outcome(m, "", "ContinueFailedJob", calls)
    ELSE IF outcomes[calls + 1] = "prereq"
    THEN Outcome(m, "", "ContinueFailedJob", calls + 1)
    ELSE IF outcomes[calls + 1] = "error"
    THEN on_exception(m, key, clk, outcomes, calls + 1)
    ELSE IF self.cancel_on_completion
    THEN Bind(update_status(m, key, "cancelled on completion", TRUE), LAMBDA us :
            IF us.exc # "" THEN on_exception(us.m, key, clk, outcomes, calls + 1)
            ELSE Outcome(us.m, "", "CancelJob", calls + 1))
    ELSE Outcome(m, "", "out", calls + 1)

\* Task.__call__
Task__call__(m, key, clk, outcomes) ==
    LET self == m.jobs[key] IN
    Bind(IF ~IsNone(self.expiry) /\ DtLess(Get(self.expiry), clk)
         THEN update_status(m, key, "cancelled on expiration", TRUE)
         ELSE [m |-> m, exc |-> ""], LAMBDA us :
        IF us.exc # "" THEN Outcome(us.m, us.exc, "", 0)
        ELSE IF us.m.jobs[key].status = Some(cascade_status)
                \/ ~is_active(us.m, self.name, self.at)
        THEN Outcome(us.m, "", "CancelJob", 0)
        ELSE attempt_loop(us.m, key, clk, outcomes, 0))

\* the wall clock of the job runner: a Friday morning, that Friday evening
\* and the Saturday morning after it (when the year is 2024)
TaskClocks ==
    <<ClockStart, DT(ClockYear, 11, 1, 20), DT(ClockYear, 11, 2, 9)>>

\* the clock one period of a job after clk
NextTaskClock(clk) ==
    LET i == CHOOSE j \in 1..Len(TaskClocks) : TaskClocks[j] = clk
    IN  TaskClocks[IF i < Len(TaskClocks) THEN i + 1 ELSE i]

\* schedule.Job: last_run and next_run after _schedule_next_run at clk
ScheduledJob(last_run, clk) == [last_run |-> last_run, next_run |-> NextTaskClock(clk)]

\* schedule.Job.should_run
should_run(job, clk) == ~DtLess(clk, job.next_run)

\* TaskMaster.add, lines 172-189: the loop over the 'at' values
RECURSIVE add_each(_, _, _, _, _, _)
add_each(m, name, ats, expiry, kw, clk) ==
    IF ats = <<>> THEN m
    ELSE LET key == <<name, Head(ats)>> IN
         IF key \in DOMAIN m.jobs \/ ~is_active(m, name, Head(ats))
         THEN add_each(m, name, Tail(ats), expiry, kw, clk)
         ELSE add_each([m EXCEPT
                           !.db = (key :> [status |-> None, active |-> 1]) @@ m.db,
                           !.jobs = (key :> Task__init__(name, Head(ats), expiry, kw)) @@ m.jobs,
                           !.scheduler = (key :> ScheduledJob(None, clk)) @@ m.scheduler],
                       name, Tail(ats), expiry, kw, clk)

\* TaskMaster.add
TaskMaster_add(m, name, ats, expiry, kw, clk) ==
    IF ~IsNone(expiry) /\ DtLess(Get(expiry), clk) THEN m
    ELSE add_each(m, name, ats, expiry, kw, clk)

\* TaskScheduler._run_job around schedule.Job.run: the Task is called, the
\* job is stamped and scheduled again, then cancelled on CancelJob.  An
\* exception of the Task leaves through TaskMaster.run.
run_job(m, key, clk, outcomes) ==
    Bind(Task__call__(m, key, clk, outcomes), LAMBDA r :
        IF r.exc # "" THEN [r EXCEPT !.m.running = FALSE]
        ELSE IF r.ret = "CancelJob"
        THEN [r EXCEPT !.m.scheduler =
                [k \in DOMAIN r.m.scheduler \ {key} |-> r.m.scheduler[k]]]
        ELSE [r EXCEPT !.m.scheduler[key] = ScheduledJob(Some(clk), clk)])

\* the keyword arguments jobs are added with
TaskKwargs ==
    {TaskKw,
     [TaskKw EXCEPT !.cancel_on_failure = TRUE],
     [TaskKw EXCEPT !.attempts = MaxAttempts],
     [TaskKw EXCEPT !.attempts = MaxAttempts, !.cancel_on_failure = TRUE, !.cascade = FALSE],
     [TaskKw EXCEPT !.cancel_on_completion = TRUE],
     [TaskKw EXCEPT !.cancel_on_completion = TRUE, !.cascade = FALSE],
     [TaskKw EXCEPT !.restrict_to_business_hours = TRUE, !.attempts = MaxAttempts],
     [TaskKw EXCEPT !.restrict_to_business_days = TRUE, !.cancel_on_failure = TRUE]}

\* what the calls of func do within one invocation: the func of job "b"
\* always returns
FuncOutcomes(key) ==
    IF key[1] = "b" THEN {[i \in 1..MaxAttempts |-> "out"]}
    ELSE [1..MaxAttempts -> {"out", "error", "prereq"}]

\* the jobs added: one name at two times of day, with or without an expiry
\* at Friday noon, and one name with no time
AddCalls ==
    {[kw |-> kw, name |-> "a", expiry |-> None, ats |-> <<"08:00", "17:00">>] :
        kw \in TaskKwargs}
    \cup {[kw |-> TaskKw, name |-> "a",
           expiry |-> Some(DT(ClockYear, 11, 1, 12)), ats |-> <<"08:00", "17:00">>],
          [kw |-> TaskKw, name |-> "b", expiry |-> None, ats |-> <<"N/A">>]}

InitTask ==
    /\ now = ClockStart
    /\ scheme = <<3, 6, 9, 12>>
    /\ t = NoObj
    /\ op = NoOp
    /\ res = NoRes
    /\ master = NoMaster

\* datetime.datetime.now() moves on by one period of the jobs
TaskTick ==
    /\ master.running
    /\ now # TaskClocks[Len(TaskClocks)]
    /\ now' = NextTaskClock(now)
    /\ op' = [NoOp EXCEPT !.name = "tick"]
    /\ res' = NoRes
    /\ UNCHANGED <<master, scheme, t>>

\* TaskMaster.add(func, every, at, expiry=expiry, name=name, **kw)
TaskAdd(call) ==
    /\ master.running
    /\ master' = TaskMaster_add(master, call.name, call.ats, call.expiry, call.kw, now)
    /\ op' = [NoOp EXCEPT !.name = "add_job", !.key = <<call.name, call.ats[1]>>]
    /\ res' = NoRes
    /\ UNCHANGED <<now, scheme, t>>

\* TaskMaster.set_inactive(name)
SetInactive(name) ==
    /\ master.running
    /\ master' = set_inactive(master, name, None)
    /\ op' = [NoOp EXCEPT !.name = "set_inactive", !.key = <<name, "">>]
    /\ res' = NoRes
    /\ UNCHANGED <<now, scheme, t>>

\* TaskMaster.run: scheduler.run_pending() runs a job that is due
RunJob(key, outcomes) ==
    /\ master.running
    /\ key \in DOMAIN master.scheduler
    /\ should_run(master.scheduler[key], now)
    /\ \E r \in {run_job(master, key, now, outcomes)} :
        /\ master' = r.m
        /\ res' = IF r.exc # "" THEN Failed(Raise(r.exc))
                  ELSE [NoRes EXCEPT !.kind = "ret", !.ret = r.ret, !.calls = r.calls]
        /\ op' = [NoOp EXCEPT !.name = "run_job", !.key = key, !.outcomes = outcomes]
    /\ UNCHANGED <<now, scheme, t>>

NextTask ==
    \/ TaskTick
    \/ \E call \in AddCalls : TaskAdd(call)
    \/ \E name \in {"a", "b"} : SetInactive(name)
    \/ \E key \in DOMAIN master.scheduler :
          \E outcomes \in FuncOutcomes(key) : RunJob(key, outcomes)

SpecTask == InitTask /\ [][NextTask]_vars

-----------------------------------------------------------------------------
(* The first generation of the date classes, which the job runner still    *)
(* imports: DateBase (src/clockwork/_base.py), its MonthEnd                 *)
(* (src/clockwork/_month_end.py) and QuarterEnd                             *)
(* (src/clockwork/_quarter_end.py), and the factory Date                    *)
(* (src/clockwork/core.py).  Their instances are objects [cls, dt] of the   *)
(* classes "DateBase", "_month_end.MonthEnd" and "_quarter_end.QuarterEnd". *)

\* DateBase.n_days_in_month: calendar.monthrange(year, month)[1]
n_days_in_month(year, month) == days_in_month(year, month)

\* _month_end.MonthEnd.__init__(self, dt)
OldMonthEnd__init__(cls, dt) ==
    Obj(cls, DT(dt.year, dt.month, n_days_in_month(dt.year, dt.month), dt.hour))

\* _quarter_end.QuarterEnd(*args): __init__(self, dt) takes one argument
OldQuarterEnd__init__(args) ==
    IF Len(args) # 1 THEN Raise("TypeError")
    ELSE Return(OldMonthEnd__init__("_quarter_end.QuarterEnd", args[1]))

\* core.Date, line 51: qtr_map.get((dt.month, dt.day)), 0 standing for None
qtr_map(month, day) ==
    IF <<month, day>> = <<3, 31>> THEN 1
    ELSE IF <<month, day>> = <<6, 30>> THEN 2
    ELSE IF <<month, day>> = <<9, 30>> THEN 3
    ELSE IF <<month, day>> = <<12, 31>> THEN 4
    ELSE 0

\* core.Date, lines 85-86 and 103-111: the factory, for a datetime argument
Date(arg, normalize) ==
    Bind(IF normalize THEN DT(arg.year, arg.month, arg.day, 0) ELSE arg, LAMBDA dt :
        IF dt.day = n_days_in_month(dt.year, dt.month)
        THEN Bind(qtr_map(dt.month, dt.day), LAMBDA qtr :
                IF qtr # 0 THEN OldQuarterEnd__init__(<<dt, qtr>>)
                ELSE Return(OldMonthEnd__init__("_month_end.MonthEnd", dt)))
        ELSE Return(Obj("DateBase", dt)))

\* DateBase.shift(months=delta): Decorators.spawn passes the moved datetime
\* to DateBase.factory, which is Date
DateBase_shift(self, months) ==
    Date(dt_add(self.dt, Delta(TRUE, 0, months, 0, 0)), FALSE)

\* _month_end.MonthEnd.is_quarter_end
OldMonthEnd_is_quarter_end(self) == self.dt.month \in {3, 6, 9, 12}

\* _month_end.MonthEnd.to_quarter_end
OldMonthEnd_to_quarter_end(self) ==
    IF OldMonthEnd_is_quarter_end(self) THEN OldQuarterEnd__init__(<<self.dt>>)
    ELSE Raise("ValueError")

\* _month_end.MonthEnd.offset
OldMonthEnd_offset(self, delta) ==
    IF delta = 0 THEN Return(self)
    ELSE Bind(DateBase_shift(self, delta), LAMBDA shifted :
        IF ~shifted.ok THEN shifted
        ELSE Return(OldMonthEnd__init__(self.cls, Val(shifted).dt)))

\* _month_end.MonthEnd.last_quarter_end: the loop, entered with delta; the
\* outcome and the number of times delta was lowered.  The scan is given up
\* as "Unbounded" after a year of months.
RECURSIVE OldMonthEnd_last_quarter_end(_, _)
OldMonthEnd_last_quarter_end(self, delta) ==
    Bind(OldMonthEnd_offset(self, delta), LAMBDA me :
        IF ~me.ok THEN [r |-> me, steps |-> -delta]
        ELSE IF OldMonthEnd_is_quarter_end(Val(me))
        THEN [r |-> OldMonthEnd_to_quarter_end(Val(me)), steps |-> -delta]
        ELSE IF -delta >= MONTHS_IN_YEAR THEN [r |-> Raise("Unbounded"), steps |-> -delta]
        ELSE OldMonthEnd_last_quarter_end(self, delta - 1))

-----------------------------------------------------------------------------
(* Conversions, backward scans and the factory *)

\* t.last_quarter_end is read
ReadLastQuarterEnd ==
    /\ res' = ResObj(Timestamp_last_quarter_end(t, now))
    /\ op' = [NoOp EXCEPT !.name = "last_quarter_end"]
    /\ UNCHANGED <<master, now, scheme, t>>

\* QuarterEnd._backtrack_to_scheme(year, month)
Backtrack(year, month) ==
    /\ \E r \in {backtrack_to_scheme(year, month)} :
          res' = IF r.ok THEN [NoRes EXCEPT !.kind = "tuple", !.pair = Val(r)] ELSE Failed(r)
    /\ op' = [NoOp EXCEPT !.name = "backtrack_to_scheme", !.a = YearMonth(year, month)]
    /\ UNCHANGED <<master, now, scheme, t>>

\* _month_end.MonthEnd(dt).last_quarter_end is read
ReadOldLastQuarterEnd(dt) ==
    /\ \E me \in {OldMonthEnd__init__("_month_end.MonthEnd", dt)} :
        \E out \in {OldMonthEnd_last_quarter_end(me, 0)} :
          res' = [ResObj(out.r) EXCEPT !.n = out.steps]
    /\ op' = [NoOp EXCEPT !.name = "old_last_quarter_end", !.a = FromDatetime(dt)]
    /\ UNCHANGED <<master, now, scheme, t>>

\* core.Date(dt, normalize=normalize) for a datetime dt
CallDate(dt, normalize) ==
    /\ res' = ResObj(Date(dt, normalize))
    /\ op' = [NoOp EXCEPT !.name = "Date", !.a = FromDatetime(dt), !.flag = normalize]
    /\ UNCHANGED <<master, now, scheme, t>>

\* the datetimes handed to the first generation of classes: the last day
\* of every month of the year, and days before it and times of day in some
OldDatetimes ==
    {DT(ClockYear, m, days_in_month(ClockYear, m), 0) : m \in 1..12}
    \cup {DT(ClockYear, 2, 28, 0), DT(ClockYear, 3, 15, 0), DT(ClockYear, 5, 30, 0),
          DT(ClockYear, 3, 31, 9), DT(ClockYear, 4, 30, 9)}

NextConvert ==
    \/ \E ns \in ValidSchemes : SetScheme(Tuple(IntItems(ns)))
    \/ ReadLastQuarterEnd
    \/ \E year \in {ClockYear}, month \in 1..12 : Backtrack(year, month)
    \/ \E dt \in OldDatetimes : ReadOldLastQuarterEnd(dt)
    \/ \E dt \in OldDatetimes, normalize \in BOOLEAN : CallDate(dt, normalize)
    \/ \E strict \in BOOLEAN : ToMonthEnd(strict)
    \/ \E strict \in BOOLEAN : ToQuarterEnd(strict)

SpecConvert == InitConvert /\ [][NextConvert]_vars

-----------------------------------------------------------------------------
(* One offset call step by step: relative_offset reads the clock, the clock *)
(* may advance, then the result is constructed with a second clock read     *)

\* the period ends offset() is called on
OffsetReceivers ==
    {Obj("MonthEnd", DT(ClockYear, 9, 30, 0)), Obj("MonthEnd", DT(ClockYear, 10, 31, 0)),
     Obj("MonthEnd", DT(ClockYear, 12, 31, 0)), Obj("QuarterEnd", DT(ClockYear, 6, 30, 0)),
     Obj("QuarterEnd", DT(ClockYear, 9, 30, 0)), Obj("QuarterEnd", DT(ClockYear, 12, 31, 0))}

InitOffset ==
    /\ now = ClockStart
    /\ scheme = <<3, 6, 9, 12>>
    /\ t \in OffsetReceivers
    /\ op = NoOp
    /\ res = NoRes
    /\ master = NoMaster

\* t.offset(periods) up to the evaluation of self.relative_offset, which
\* builds self.__class__(offset=0) from datetime.datetime.now()
OffsetReadsAnchor(periods) ==
    /\ op.name # "offset_pending"
    /\ \E rel \in {MonthEnd_relative_offset(t, now)} :
        /\ res' = ResInt(rel)
        /\ op' = [NoOp EXCEPT !.name = IF rel.ok THEN "offset_pending" ELSE "offset_return",
                              !.periods = periods]
    /\ UNCHANGED <<master, now, scheme, t>>

\* the wall clock moves on, whether or not an offset call is under way
ClockAdvances ==
    /\ Ticks(now) < MaxTicks
    /\ now' = NextClock(now)
    /\ IF op.name = "offset_pending"
       THEN UNCHANGED <<op, res>>
       ELSE op' = [NoOp EXCEPT !.name = "tick"] /\ res' = NoRes
    /\ UNCHANGED <<master, scheme, t>>

\* the rest of t.offset(periods): out = self.__class__(offset=... + periods),
\* whose default anchor is a second datetime.datetime.now(), and return out
OffsetConstructs ==
    /\ op.name = "offset_pending"
    /\ res' = ResObj(MonthEnd__init__(t.cls, OffsetOnly(res.n + op.periods), now))
    /\ op' = [op EXCEPT !.name = "offset_return", !.a = OffsetOnly(res.n + op.periods)]
    /\ UNCHANGED <<master, now, scheme, t>>

NextOffset ==
    \/ \E periods \in Periods : OffsetReadsAnchor(periods)
    \/ ClockAdvances
    \/ OffsetConstructs

SpecOffset == InitOffset /\ [][NextOffset]_vars

-----------------------------------------------------------------------------
(* Properties *)

\* the month index of a date, year * 12 + month
IndexOf(dt) == dt.year * 12 + dt.month

\* the last day, at midnight, of the month whose month index is index
LastDayAt(index) ==
    DT((index - 1) \div 12, ((index - 1) % 12) + 1,
       days_in_month((index - 1) \div 12, ((index - 1) % 12) + 1), 0)

\* the day is the last of its month and the time of day is midnight
IsMonthEndInstant(dt) == dt.day = days_in_month(dt.year, dt.month) /\ dt.hour = 0

\* the call passed nothing but an integer offset
IsOffsetOnly(a) ==
    /\ IsNone(a.arg) /\ IsNone(a.year) /\ IsNone(a.month) /\ IsNone(a.quarter)
    /\ a.offset.kind = "int"

\* C1: after any sequence of public operations, a MonthEnd or QuarterEnd
\* instance is on the last day of its month, at midnight.
C1_PeriodEndAlwaysValid ==
    IsPeriodEnd(t) => IsMonthEndInstant(t.dt)

\* C2: every QuarterEnd a successful constructor call or offset(periods)
\* returns has its month in the scheme active at the call and is the last
\* day of that month at midnight.
C2_QuarterEndInActiveScheme ==
    /\ (op.name \in {"QuarterEnd", "offset"} /\ res.kind = "obj"
            /\ res.obj.cls = "QuarterEnd")
        => InScheme(res.obj.dt.month) /\ IsMonthEndInstant(res.obj.dt)
    /\ (op.name = "QuarterEnd" /\ res.ok) => res.kind = "obj" /\ t = res.obj
    /\ (op.name = "offset" /\ op.inplace /\ res.ok /\ t.cls = "QuarterEnd")
        => InScheme(t.dt.month) /\ IsMonthEndInstant(t.dt)

\* C2 witness: under the scheme (2, 5, 8, 11) a QuarterEnd was built from a
\* scalar, and offset() returned a QuarterEnd.
C2_Witness ==
    /\ scheme = <<2, 5, 8, 11>>
    /\ op.name = "offset" /\ ~op.inplace /\ op.periods = 1
    /\ res.kind = "obj" /\ res.obj.cls = "QuarterEnd"

\* C3: a successful set_scheme leaves quarter, long_label, compact_label and
\* short_label of an existing QuarterEnd as they were, and readable.
C3_SchemeNotRetroactive ==
    [][(op'.name = "set_scheme" /\ res'.ok /\ t.cls = "QuarterEnd"
            /\ QuarterEnd_quarter(t).ok)
        => /\ QuarterEnd_quarter(t)' = QuarterEnd_quarter(t)
           /\ QuarterEnd_long_label(t)' = QuarterEnd_long_label(t)
           /\ QuarterEnd_compact_label(t)' = QuarterEnd_compact_label(t)
           /\ QuarterEnd_short_label(t)' = QuarterEnd_short_label(t)]_vars

\* the integers of a tuple of integers
IntsOf(items) == [i \in 1..Len(items) |-> items[i].n]

\* the integer an element stands for: itself, or the digits of a string
IntLike(x) == x.kind = "int" \/ (x.kind = "str" /\ StrIsDigit(x.s))
IntValueOf(x) == IF x.kind = "int" THEN x.n ELSE StrToInt(x.s)
IntValuesOf(items) == [i \in 1..Len(items) |-> IntValueOf(items[i])]

\* four values rising in steps of 3 within 1..12
IsQuarterScheme(ns) ==
    /\ Len(ns) = 4
    /\ \A i \in 2..Len(ns) : ns[i] = ns[i - 1] + 3
    /\ \A i \in 1..Len(ns) : ns[i] \in 1..12

\* C4 as stated: set_scheme(v) succeeds and makes v the scheme exactly when
\* v is a tuple of 4 integers in steps of 3 within 1..12; otherwise it
\* raises and leaves the scheme unchanged.
C4_OnlyIntegerTuples ==
    [][op'.name = "set_scheme"
        => IF /\ op'.value.type = "tuple"
              /\ \A i \in 1..Len(op'.value.items) : op'.value.items[i].kind = "int"
              /\ IsQuarterScheme(IntsOf(op'.value.items))
           THEN res'.ok /\ scheme' = IntsOf(op'.value.items)
           ELSE ~res'.ok /\ scheme' = scheme]_vars

\* C4: set_scheme(v) succeeds exactly when v is a tuple of 4 elements, each
\* an integer or a string of decimal digits, whose integer values rise in
\* steps of 3 within 1..12, and then the tuple of those integer values is
\* the scheme; otherwise it raises and leaves the scheme unchanged.
C4_IntegerLikeTuples ==
    [][op'.name = "set_scheme"
        => IF /\ op'.value.type = "tuple"
              /\ \A i \in 1..Len(op'.value.items) : IntLike(op'.value.items[i])
              /\ IsQuarterScheme(IntValuesOf(op'.value.items))
           THEN res'.ok /\ scheme' = IntValuesOf(op'.value.items)
           ELSE ~res'.ok /\ scheme' = scheme]_vars

\* C4 witness: a tuple of digit strings was accepted and its integer values
\* are the scheme.
C4_Witness ==
    /\ op.name = "set_scheme" /\ res.ok
    /\ \A i \in 1..Len(op.value.items) : op.value.items[i].kind = "str"
    /\ scheme = <<1, 4, 7, 10>>

\* the call added or subtracted a duration: shift(**kwargs), t + d or t - d
\* with d a number or a duration dict
IsDurationCall ==
    \/ op.name = "shift"
    \/ op.name \in {"add", "sub"} /\ op.other.kind \in {"int", "dict"}

C6_ReceiverUnchanged ==
    [][/\ (\/ op'.name \in {"shift", "add", "sub", "skip_weekends", "skip_holidays",
                            "skip_non_business_days", "next", "last", "to_month_end",
                            "to_quarter_end", "copy"}
           \/ op'.name \in {"offset", "replace", "normalize"} /\ ~op'.inplace)
          => t' = t
       /\ (op'.name \in {"offset", "replace", "normalize"} /\ op'.inplace /\ ~res'.ok)
          => t' = t
       /\ (op'.name \in {"offset", "replace", "normalize"} /\ op'.inplace /\ res'.ok)
          => /\ t'.cls = t.cls
             /\ IsValidDT(t'.dt)
             /\ op'.name = "replace"
                  => t'.dt = DT(IF IsNone(op'.rkw.year) THEN t.dt.year ELSE Get(op'.rkw.year),
                                IF IsNone(op'.rkw.month) THEN t.dt.month ELSE Get(op'.rkw.month),
                                IF IsNone(op'.rkw.day) THEN t.dt.day ELSE Get(op'.rkw.day),
                                IF IsNone(op'.rkw.hour) THEN t.dt.hour ELSE Get(op'.rkw.hour))
             /\ op'.name = "normalize" => t'.dt = DT(t.dt.year, t.dt.month, t.dt.day, 0)
             /\ op'.name = "offset"
                  => t'.dt = LastDayAt(IndexOf(t.dt) + op'.periods * increment(t.cls))]_vars

\* C6 witness: an in-place replace on a MonthEnd raised.
C6_Witness ==
    /\ op.name = "replace" /\ op.inplace /\ ~res.ok
    /\ t.cls = "MonthEnd"

\* the periods the offset algebra is checked for
AlgebraPeriods == {-13, -1, 0, 1, 12}

\* C7: whatever the clock shows, for a MonthEnd E and integers a and b,
\* E.offset(a).offset(b) = E.offset(a + b), E.offset(0) = E, and E.offset(a)
\* is the month end whose month index is E's plus a.
C7_OffsetAlgebra ==
    (t.cls = "MonthEnd" /\ op.name \in {"MonthEnd", "tick"})
        => \A a, b \in AlgebraPeriods :
            /\ MonthEnd_offset(t, Int_(a), now)
                 = Return(Obj("MonthEnd", LastDayAt(IndexOf(t.dt) + a)))
            /\ MonthEnd_offset(Obj("MonthEnd", LastDayAt(IndexOf(t.dt) + a)), Int_(b), now)
                 = MonthEnd_offset(t, Int_(a + b), now)
            /\ MonthEnd_offset(t, Int_(0), now) = Return(t)

\* C7 witness: in January, a MonthEnd built from a year and a month.
C7_Witness ==
    /\ t.cls = "MonthEnd" /\ op.name = "MonthEnd" /\ res.ok
    /\ ~IsNone(op.a.year) /\ ~IsNone(op.a.month)
    /\ now.month = 1

\* the month of a month index
MonthAt(index) == ((index - 1) % 12) + 1

\* the nearest month index at or before index whose month is in the scheme
NearestSchemeIndex(index) ==
    CHOOSE i \in (index - 11)..index :
        /\ InScheme(MonthAt(i))
        /\ \A j \in (i + 1)..index : ~InScheme(MonthAt(j))

\* C8: in every month of the clock and under every scheme,
\* QuarterEnd(offset=k) succeeds and is the last day, at midnight, of the
\* nearest scheme month at or before the month preceding the current one,
\* moved by k quarters.
C8_DefaultQuarterEnd ==
    (op.name = "QuarterEnd" /\ IsOffsetOnly(op.a))
        => /\ res.ok
           /\ res.obj = Obj("QuarterEnd",
                            LastDayAt(NearestSchemeIndex(IndexOf(now) - 1)
                                      + 3 * op.a.offset.n))

\* C9: whatever the clock shows, MonthEnd(offset=k) is the last day, at
\* midnight, of the month k months after the month preceding the current
\* one.
C9_DefaultMonthEnd ==
    (op.name = "MonthEnd" /\ IsOffsetOnly(op.a))
        => /\ res.ok
           /\ res.obj = Obj("MonthEnd", LastDayAt(IndexOf(now) - 1 + op.a.offset.n))
           /\ t = res.obj

\* C9 witness: on the last day of January, MonthEnd(offset=-1) is the last
\* day of November of the year before.
C9_Witness ==
    /\ op.name = "MonthEnd" /\ IsOffsetOnly(op.a) /\ op.a.offset.n = -1
    /\ now.month = 1 /\ now.day = 31
    /\ res.ok /\ res.obj.dt = DT(now.year - 1, 11, 30, 0)

\* C10: relative_offset of a MonthEnd E is E's month index minus that of
\* the month preceding the current one, whenever it is read; it falls by one
\* with every month boundary the clock crosses.
C10_RelativeOffsetLive ==
    t.cls = "MonthEnd"
        => /\ MonthEnd_relative_offset(t, now)
                = Return(IndexOf(t.dt) - (IndexOf(now) - 1))
           /\ MonthEnd_relative_offset(t, NextClock(now))
                = Return(Val(MonthEnd_relative_offset(t, now))
                         - (IndexOf(NextClock(now)) - IndexOf(now)))
           /\ op.name = "relative_offset"
                => res.kind = "int" /\ res.n = IndexOf(t.dt) - (IndexOf(now) - 1)

\* C10 witness: after the clock crossed into January, relative_offset of a
\* MonthEnd was read and is negative.
C10_Witness ==
    /\ op.name = "relative_offset" /\ t.cls = "MonthEnd"
    /\ now.month = 1
    /\ res.ok /\ res.n < 0

\* C11: reading relative_offset of a successfully constructed MonthEnd or
\* QuarterEnd never takes the 'Unexpected remainder' branch: whenever the
\* zero-offset anchor can be built, relative_offset returns.
C11_RemainderUnreachable ==
    (IsPeriodEnd(t) /\ IsMonthEndInstant(t.dt) /\ New(t.cls, OffsetOnly(0), now).ok)
        => MonthEnd_relative_offset(t, now).ok

\* the three shapes of a quarter label, matched against a whole text without
\* regard to case: YYYYQ#, #QYY and Q#
IsLongLabel(x) ==
    Len(x) = 6 /\ StrIsDigit(SubSeq(x, 1, 4)) /\ ToUpper(x[5]) = "Q" /\ IsDigitChar(x[6])
IsCompactLabel(x) ==
    Len(x) = 4 /\ IsDigitChar(x[1]) /\ ToUpper(x[2]) = "Q" /\ StrIsDigit(SubSeq(x, 3, 4))
IsShortLabel(x) ==
    Len(x) = 2 /\ ToUpper(x[1]) = "Q" /\ IsDigitChar(x[2])
IsLabel(x) == IsLongLabel(x) \/ IsCompactLabel(x) \/ IsShortLabel(x)

\* the year and the quarter digit a label stands for when the clock shows clk
LabelYearQtr(x, clk) ==
    IF IsLongLabel(x) THEN <<StrToInt(SubSeq(x, 1, 4)), StrToInt(<<x[6]>>)>>
    ELSE IF IsCompactLabel(x)
    THEN <<100 * (clk.year \div 100) + StrToInt(SubSeq(x, 3, 4)), StrToInt(<<x[1]>>)>>
    ELSE <<clk.year, StrToInt(<<x[2]>>)>>

\* what the claim says parse_label does with a text x, the label being read
\* from the text 'shape'
ParseLabelAgrees(x, shape) ==
    IF x.kind = "str" /\ IsLabel(shape)
    THEN IF LabelYearQtr(shape, now)[2] \in 1..4
         THEN res.ok /\ res.kind = "tuple" /\ res.pair = LabelYearQtr(shape, now)
         ELSE ~res.ok
    ELSE res.ok /\ res.kind = "None"

\* C12 as stated: parse_label matches the whole text, without regard to
\* case, against YYYYQ#, #QYY and Q#; it returns (year, quarter), the year
\* completed from the current year; a text of no such shape and a non-string
\* give None; a quarter digit outside 1..4 is an error.
C12_ParseLabelWholeString ==
    (op.name = "parse_label" /\ ~IsNone(op.a.arg))
        => ParseLabelAgrees(Get(op.a.arg), Get(op.a.arg).s)

\* C12: the same, the three shapes being matched after the white space
\* around the text is stripped.
C12_ParseLabelStripped ==
    /\ (op.name = "parse_label" /\ ~IsNone(op.a.arg))
        => ParseLabelAgrees(Get(op.a.arg), StrStrip(Get(op.a.arg).s))
    /\ (op.name = "parse_label" /\ IsNone(op.a.arg)) => res.ok /\ res.kind = "None"

\* C12 witness: in the year after ClockYear, 'Q4' was parsed as the fourth
\* quarter of that year.
C12_Witness ==
    /\ op.name = "parse_label" /\ op.a.arg = Some(Str_(<<"Q", "4">>))
    /\ now.year = ClockYear + 1
    /\ res.ok /\ res.pair = <<ClockYear + 1, 4>>

\* the text passed to the constructor, and its offset as an integer
ArgText == Get(op.a.arg).s
ArgOffset == IntValueOf(op.a.offset)

\* a text is a weekday name, in full or three letters, whatever its case
IsNameOfDay(x, i) ==
    StrLower(x) \in {StrLower(day_name[i + 1]), StrLower(SubSeq(day_name[i + 1], 1, 3))}
IsWeekdayText(x) == \E i \in 0..6 : IsNameOfDay(x, i)
WeekdayIndexOf(x) == CHOOSE i \in 0..6 : IsNameOfDay(x, i)

\* the ordinal of the Monday of the week a date lies in
MondayOf(dt) == ToOrdinal(dt) - Weekday(dt)

\* the call returned the named weekday, at midnight, in the week ArgOffset
\* weeks from the week of the clock
ResolvedAsWeekday ==
    /\ res.ok /\ res.kind = "obj"
    /\ res.obj.dt.hour = 0
    /\ Weekday(res.obj.dt) = WeekdayIndexOf(ArgText)
    /\ MondayOf(res.obj.dt) = MondayOf(now) + 7 * ArgOffset

\* the call returned the end of the labelled quarter moved by ArgOffset
\* quarters, or failed on a quarter digit outside 1..4
ResolvedAsLabel ==
    Bind(LabelYearQtr(StrStrip(ArgText), now), LAMBDA yq :
        IF yq[2] \in 1..4
        THEN res.ok /\ res.obj.dt = LastDayAt(12 * yq[1] + scheme[yq[2]] + 3 * ArgOffset)
        ELSE ~res.ok)

\* the call returned what strptime makes of the text and the format
ResolvedByFormat ==
    Bind(strptime(ArgText, Get(op.a.format)), LAMBDA parsed :
        IF parsed.ok THEN res.ok /\ res.obj.dt = Val(parsed) ELSE ~res.ok)

\* the call returned what general text parsing makes of the text
ResolvedAsText ==
    Bind(dateutil_parse(ArgText), LAMBDA parsed :
        IF parsed.ok THEN res.ok /\ res.obj.dt = Val(parsed) ELSE ~res.ok)

\* a Timestamp was constructed from a text, with an integer offset
IsTextCall ==
    /\ op.name = "Timestamp" /\ ~IsNone(op.a.arg) /\ Get(op.a.arg).kind = "str"
    /\ IntLike(op.a.offset)

\* C13 as stated: a text is resolved as a weekday name, else as a quarter
\* label, also when a format is passed; the format is used only when the
\* text is neither, and general parsing when no format is passed.
C13_ResolverOrder ==
    IsTextCall
        => IF IsWeekdayText(ArgText) THEN ResolvedAsWeekday
           ELSE IF IsLabel(StrStrip(ArgText)) THEN ResolvedAsLabel
           ELSE IF ~IsNone(op.a.format) THEN ResolvedByFormat
           ELSE ResolvedAsText

\* C13: when a format is passed the text is parsed by that format alone,
\* weekday names and quarter labels included; without a format the text is
\* resolved as a weekday name, else as a quarter label, else by general
\* parsing.
C13_FormatFirst ==
    IsTextCall
        => IF ~IsNone(op.a.format) THEN ResolvedByFormat
           ELSE IF IsWeekdayText(ArgText) THEN ResolvedAsWeekday
           ELSE IF IsLabel(StrStrip(ArgText)) THEN ResolvedAsLabel
           ELSE ResolvedAsText

\* C13 witness: 'Friday' with the format '%A' came back as 1900-01-01, which
\* strptime returns for a day name alone.
C13_Witness ==
    /\ IsTextCall /\ StrLower(ArgText) = <<"f", "r", "i", "d", "a", "y">>
    /\ op.a.format = Some(FormatDayName)
    /\ res.ok /\ res.obj.dt = DT(1900, 1, 1, 0)

\* C14: whatever the clock shows, a Timestamp constructed from a weekday
\* name (in full or three letters, in any letter case) and a week offset w,
\* with no format, is at midnight, falls on the named weekday and lies in the
\* Monday-started week w weeks from the week of the clock: one of the seven
\* days from that Monday on, be the day past or ahead.
C14_WeekdayInWeek ==
    (IsTextCall /\ IsNone(op.a.format) /\ IsWeekdayText(ArgText))
        => /\ res.ok /\ res.kind = "obj" /\ res.obj.cls = "Timestamp"
           /\ t = res.obj
           /\ is_normalized(res.obj.dt)
           /\ \E i \in 0..6 :
                /\ IsNameOfDay(ArgText, i)
                /\ ToOrdinal(res.obj.dt) = MondayOf(now) + 7 * ArgOffset + i
                /\ Weekday(res.obj.dt) = i

\* C14 witness: on a Sunday, 'mOn' with week offset 0 is the Monday six days
\* before.
C14_Witness ==
    /\ IsTextCall /\ IsNone(op.a.format)
    /\ ArgText = <<"m", "O", "n">> /\ ArgOffset = 0
    /\ Weekday(now) = 6
    /\ res.ok /\ ToOrdinal(res.obj.dt) = ToOrdinal(now) - 6

\* cls(text) is built and equals E
RoundTrips(E, text) ==
    Bind(New(E.cls, Scalar(Str_(text), 0, FALSE), now), LAMBDA back :
        back.ok /\ Val(back).cls = E.cls /\ Timestamp__eq__(Val(back), E))

\* C15: a MonthEnd E is equal to MonthEnd(E.ymd); a QuarterEnd E whose month
\* is in the active scheme is equal to QuarterEnd(E.ymd) and to
\* QuarterEnd(E.long_label).  Years have four digits.
C15_RoundTrip ==
    /\ (t.cls = "MonthEnd" /\ IsMonthEndInstant(t.dt))
        => RoundTrips(t, Timestamp_ymd(t))
    /\ (t.cls = "QuarterEnd" /\ IsMonthEndInstant(t.dt) /\ InScheme(t.dt.month))
        => /\ RoundTrips(t, Timestamp_ymd(t))
           /\ QuarterEnd_long_label(t).ok
           /\ RoundTrips(t, Val(QuarterEnd_long_label(t)))
    /\ (op.name = "long_label" /\ res.ok) => RoundTrips(t, res.s)

\* C15 witness: under the scheme (1, 4, 7, 10), in January, the long label
\* of a QuarterEnd was read and QuarterEnd(label) is that QuarterEnd.
C15_Witness ==
    /\ op.name = "long_label" /\ res.ok
    /\ scheme = <<1, 4, 7, 10>> /\ now.month = 1
    /\ t.cls = "QuarterEnd" /\ t.dt.month = 10
    /\ res.s = IntToStr(t.dt.year) \o <<"Q", "4">>
    /\ New("QuarterEnd", Scalar(Str_(res.s), 0, FALSE), now) = Return(t)

\* the receiver satisfies the invariant of its class
IsSoundReceiver ==
    /\ t.cls = "MonthEnd" => IsMonthEndInstant(t.dt)
    /\ t.cls = "QuarterEnd" => IsMonthEndInstant(t.dt) /\ InScheme(t.dt.month)

\* how many days the result of the call lies after the receiver
DaysMoved == ToOrdinal(res.obj.dt) - ToOrdinal(t.dt)

\* the business days among the n days that follow dt in direction dir
BusinessDaysFrom(dt, dir, n) == {k \in 1..n : is_business_day(AddDelta(dt, dir * k, 0))}

\* C16: shift(biz_days=N) alone, on a receiver that satisfies the invariant
\* of its class, returns; for N # 0 the result is a business day in direction
\* sign(N) from the start, and exactly |N| business days lie after the start
\* up to and including the result; for N = 0 the result equals the start.
\* The time of day is preserved.
C16_BusinessDays ==
    (op.name = "shift" /\ ~IsNone(op.kw.biz_days)
            /\ op.kw = [NoKw EXCEPT !.biz_days = op.kw.biz_days])
        => /\ IsSoundReceiver => res.ok
           /\ res.ok
                => /\ res.kind = "obj"
                   /\ res.obj.dt.hour = t.dt.hour
                   /\ IF Get(op.kw.biz_days) = 0 THEN res.obj = t
                      ELSE /\ is_business_day(res.obj.dt)
                           /\ Sign(DaysMoved) = Sign(Get(op.kw.biz_days))
                           /\ Cardinality(BusinessDaysFrom(t.dt, Sign(DaysMoved), Abs(DaysMoved)))
                                = Abs(Get(op.kw.biz_days))

\* C16 witness: one business day after a Saturday that a holiday Monday
\* follows is the Tuesday, three days on.
C16_Witness ==
    /\ op.name = "shift" /\ op.kw = [NoKw EXCEPT !.biz_days = Some(1)]
    /\ Weekday(t.dt) = 5 /\ is_holiday(AddDelta(t.dt, 2, 0))
    /\ res.ok /\ DaysMoved = 3

\* the predicate a skip method tests, and the attribute it reads
SkipPredicate(name, dt) ==
    IF name = "skip_weekends" THEN is_weekend(dt)
    ELSE IF name = "skip_holidays" THEN is_holiday(dt)
    ELSE is_non_business_day(dt)
SkipAttribute(name) ==
    IF name = "skip_weekends" THEN "is_weekend"
    ELSE IF name = "skip_holidays" THEN "is_holiday"
    ELSE "is_non_business_day"

\* C17: skip_weekends, skip_holidays and skip_non_business_days, forward or
\* backward, on a receiver that satisfies the invariant of its class, return
\* the nearest day in that direction, the start included, on which the
\* predicate is false: the result does not satisfy it, the start and every
\* day before the result do, a start that does not satisfy it comes back
\* unchanged, and the same skip applied to the result returns the result.
C17_SkipToNearest ==
    (op.name \in {"skip_weekends", "skip_holidays", "skip_non_business_days"})
        => /\ IsSoundReceiver => res.ok
           /\ res.ok
                => /\ res.kind = "obj"
                   /\ res.obj.dt.hour = t.dt.hour
                   /\ ~SkipPredicate(op.name, res.obj.dt)
                   /\ DaysMoved # 0 => Sign(DaysMoved) = (IF op.flag THEN 1 ELSE -1)
                   /\ \A k \in 0..(Abs(DaysMoved) - 1) :
                        SkipPredicate(op.name, AddDelta(t.dt, Sign(DaysMoved) * k, 0))
                   /\ ~SkipPredicate(op.name, t.dt) => res.obj = t
                   /\ skip_shift(res.obj, SkipAttribute(op.name), op.flag, now)
                        = Return(res.obj)

\* C17 witness: skipping non-business days forward from a Saturday that a
\* holiday Monday follows returned the Tuesday.
C17_Witness ==
    /\ op.name = "skip_non_business_days" /\ op.flag
    /\ Weekday(t.dt) = 5 /\ is_holiday(AddDelta(t.dt, 2, 0))
    /\ res.ok /\ DaysMoved = 3

\* C18: for a value t, a weekday name w and an offset k, t.next(w, k) falls
\* on weekday w, ((index(w) - weekday(t) - 1) mod 7) + 1 + 7k days after t,
\* and t.last(w, k) falls on weekday w, ((weekday(t) - index(w) - 1) mod 7)
\* + 1 - 7k days before t; with k = 0 neither is t's own day.  The time of
\* day is preserved.
C18_NextLastWeekday ==
    (op.name \in {"next", "last"} /\ IsWeekdayText(op.arg.s))
        => /\ res.ok /\ res.kind = "obj"
           /\ res.obj.dt.hour = t.dt.hour
           /\ Weekday(res.obj.dt) = WeekdayIndexOf(op.arg.s)
           /\ op.name = "next"
                => DaysMoved = ((WeekdayIndexOf(op.arg.s) - Weekday(t.dt) - 1) % 7)
                               + 1 + 7 * op.periods
           /\ op.name = "last"
                => -DaysMoved = ((Weekday(t.dt) - WeekdayIndexOf(op.arg.s) - 1) % 7)
                                + 1 - 7 * op.periods
           /\ op.periods = 0 => Abs(DaysMoved) \in 1..7

\* C18 witness: on a Friday, next('fri') is the Friday a week later.
C18_Witness ==
    /\ op.name = "next" /\ op.arg = Str_(<<"f", "r", "i">>) /\ op.periods = 0
    /\ Weekday(t.dt) = 4
    /\ res.ok /\ DaysMoved = 7

\* the clocks C19 ranges over: the first morning and a late evening of every
\* month of the clock's year
MarkerClocks ==
    {DT(ClockYear, m, 1, 9) : m \in 1..12} \cup {DT(ClockYear, m, 28, 23) : m \in 1..12}

\* the month index of t.last_month_end as C19 describes it: t's own month
\* when t is on the last day of its month, the month before otherwise
LastMonthEndIndex(dt) ==
    IF dt.day = days_in_month(dt.year, dt.month) THEN IndexOf(dt) ELSE IndexOf(dt) - 1

\* the months t.last_month_end is moved by a call of next or last
MarkerMonths(kind, k) == IF kind = "next" THEN k + 1 ELSE k

\* C19: for the marker 'ME', a value t, an offset k and any current date,
\* t.last_month_end is the end of t's own month when t is on the last day
\* of its month and of the previous month otherwise; t.last('ME', k) is
\* that month end moved k months and t.next('ME', k) is it moved k + 1
\* months; with k = 0, last('ME') is not after t's date and next('ME') is
\* strictly after it.
C19_MonthEndMarker ==
    (op.name \in {"next", "last"} /\ op.arg.kind = "str"
     /\ StrLower(op.arg.s) = <<"m", "e">>)
        => /\ res.ok /\ res.kind = "obj"
           /\ res.obj = Obj("MonthEnd",
                            LastDayAt(LastMonthEndIndex(t.dt)
                                      + MarkerMonths(op.name, op.periods)))
           /\ \A clk \in MarkerClocks :
                /\ Timestamp_last_month_end(t, clk)
                     = Return(Obj("MonthEnd", LastDayAt(LastMonthEndIndex(t.dt))))
                /\ handle_next_last(t, op.name, op.arg, op.periods, clk) = Return(res.obj)
           /\ (op.periods = 0 /\ op.name = "last") => DaysMoved <= 0
           /\ (op.periods = 0 /\ op.name = "next") => DaysMoved > 0

\* C19 witness: on the last day of January, next('ME') is the end of
\* February and last('ME') is the end of January itself.
C19_Witness ==
    /\ op.name \in {"next", "last"} /\ op.arg = Str_(<<"M", "E">>) /\ op.periods = 0
    /\ t.dt.month = 1 /\ t.dt.day = 31
    /\ res.ok
    /\ res.obj.dt.month = (IF op.name = "next" THEN 2 ELSE 1)

\* the date is the last day of its month, whatever the time of day
OnLastDay(dt) == dt.day = days_in_month(dt.year, dt.month)

\* the outcome C20 gives a conversion of receiver self recorded as o and r
ConversionAgrees(self, o, r) ==
    /\ (o.name = "to_month_end" /\ o.flag)
         => /\ r.ok <=> OnLastDay(self.dt)
            /\ ~r.ok => r.err = "ValueError"
    /\ (o.name = "to_month_end" /\ ~o.flag) => r.ok
    /\ (o.name = "to_month_end" /\ r.ok)
         => /\ r.kind = "obj"
            /\ r.obj = Obj("MonthEnd", LastDayAt(IndexOf(self.dt)))
    /\ (o.name = "to_quarter_end" /\ o.flag)
         => /\ r.ok <=> (OnLastDay(self.dt) /\ InScheme(self.dt.month))
            /\ r.ok => /\ r.kind = "obj"
                       /\ r.obj = Obj("QuarterEnd", LastDayAt(IndexOf(self.dt)))
            /\ ~r.ok => r.err = "ValueError"
    /\ (o.name = "to_quarter_end" /\ ~o.flag)
         => ~r.ok /\ r.err = "NotImplementedError"

\* C20: to_month_end(strict=True) succeeds exactly when t is on the last
\* day of its month and returns the MonthEnd of t's year and month;
\* to_month_end(strict=False) always returns the MonthEnd of the month
\* containing t; to_quarter_end(strict=True) succeeds exactly when t is on
\* the last day of a month of the active scheme; to_quarter_end(strict=False)
\* always fails with NotImplementedError, also when t is aligned; and a
\* conversion, failing or not, leaves t as it was.
C20_PeriodEndConversion ==
    [][op'.name \in {"to_month_end", "to_quarter_end"}
         => /\ ConversionAgrees(t, op', res')
            /\ t' = t]_vars

\* C20 witness: after the scheme became (1, 4, 7, 10), a Timestamp on the
\* morning of 30 April converts to the QuarterEnd of April.
C20_Witness ==
    /\ op.name = "to_quarter_end" /\ op.flag
    /\ scheme = <<1, 4, 7, 10>>
    /\ t = Obj("Timestamp", DT(ClockYear, 4, 30, 9))
    /\ res.ok /\ res.obj = Obj("QuarterEnd", DT(ClockYear, 4, 30, 0))

\* the invocation of job key at clk gets as far as calling func: the job has
\* not expired, is active, was not cancelled on cascade, and its
\* business-hours and business-day restrictions are met
ReachesFunc(m, key, clk) ==
    LET self == m.jobs[key] IN
    /\ IsNone(self.expiry) \/ ~DtLess(Get(self.expiry), clk)
    /\ self.status # Some(cascade_status)
    /\ is_active(m, self.name, self.at)
    /\ self.restrict_to_business_hours => is_business_hours(clk)
    /\ self.restrict_to_business_days => is_business_day(clk)

\* the first n calls of func raise an exception that is not a
\* PrerequisiteError
FailsFirst(outcomes, n) == \A i \in 1..n : outcomes[i] = "error"

\* C21: in the first invocation of a Task created with attempts = N >= 1,
\* a func that raises a non-prerequisite exception on every call is called
\* exactly N times and the invocation returns CancelJob with the status
\* 'cancelled on failure'; a func that returns on call i <= N is called i
\* times and the job is not cancelled for failure.
C21_AttemptsThenCancelled ==
    [][(/\ op'.name = "run_job"
        /\ IsNone(master.scheduler[op'.key].last_run)
        /\ ReachesFunc(master, op'.key, now)
        /\ master.jobs[op'.key].attempts >= 1)
       => /\ FailsFirst(op'.outcomes, master.jobs[op'.key].attempts)
               => /\ res'.ok /\ res'.ret = "CancelJob"
                  /\ res'.calls = master.jobs[op'.key].attempts
                  /\ master'.jobs[op'.key].status = Some("cancelled on failure")
                  /\ op'.key \notin DOMAIN master'.scheduler
          /\ \A i \in 1..master.jobs[op'.key].attempts :
               (FailsFirst(op'.outcomes, i - 1) /\ op'.outcomes[i] = "out")
                 => /\ res'.ok /\ res'.calls = i
                    /\ master'.jobs[op'.key].status # Some("cancelled on failure")
                    /\ res'.ret = "CancelJob"
                         <=> master.jobs[op'.key].cancel_on_completion]_vars

\* C22: in the first invocation of a Task created with
\* cancel_on_failure=False and attempts=1 whose func raises a
\* non-prerequisite exception, the invocation returns ContinueFailedJob, the
\* job is not given the status 'cancelled on failure', and the scheduler
\* keeps the job, stamped and due again one period later.
C22_CancelOnlyIfAsked ==
    [][(/\ op'.name = "run_job"
        /\ IsNone(master.scheduler[op'.key].last_run)
        /\ ReachesFunc(master, op'.key, now)
        /\ ~master.jobs[op'.key].cancel_on_failure
        /\ master.jobs[op'.key].attempts = 1
        /\ op'.outcomes[1] = "error")
       => /\ res'.ok /\ res'.ret = "ContinueFailedJob"
          /\ ~master'.jobs[op'.key].cancel_on_failure
          /\ master'.jobs[op'.key].status # Some("cancelled on failure")
          /\ op'.key \in DOMAIN master'.scheduler
          /\ master'.scheduler[op'.key] = ScheduledJob(Some(now), now)]_vars

\* the month index of the latest scheme month whose last day is on or
\* before the date dt
LatestQuarterIndex(dt) ==
    CHOOSE i \in (IndexOf(dt) - 12)..IndexOf(dt) :
        /\ InScheme(MonthAt(i)) /\ ToOrdinal(LastDayAt(i)) <= ToOrdinal(dt)
        /\ \A j \in (i + 1)..IndexOf(dt) :
             ~(InScheme(MonthAt(j)) /\ ToOrdinal(LastDayAt(j)) <= ToOrdinal(dt))

\* C23: for every value t and every valid scheme, t.last_quarter_end is the
\* QuarterEnd on the last day of the latest scheme month whose month-end
\* date is on or before t's date; it is never a date after t.
C23_LastQuarterEndNotAfter ==
    op.name = "last_quarter_end"
        => /\ res.ok /\ res.kind = "obj"
           /\ res.obj = Obj("QuarterEnd", LastDayAt(LatestQuarterIndex(t.dt)))
           /\ ToOrdinal(res.obj.dt) <= ToOrdinal(t.dt)

\* the datetime argument of the call
ArgDt(o) == Get(o.a.arg).dt

\* the month index of the nearest month at or before index that is one of
\* months
NearestIndexIn(index, months) ==
    CHOOSE i \in (index - 11)..index :
        /\ MonthAt(i) \in months
        /\ \A j \in (i + 1)..index : MonthAt(j) \notin months

\* C24: for every valid scheme and every (year, month) with month in 1..12,
\* _backtrack_to_scheme returns, after at most 2 steps back, the nearest
\* scheme month at or before the input month, in the previous year when it
\* steps back past January; and the loop of the first MonthEnd's
\* last_quarter_end stops, by returning or raising, after at most 2 steps
\* back, returning only the quarter end of the nearest quarter month.
C24_BacktrackBounded ==
    /\ op.name = "backtrack_to_scheme"
         => /\ res.ok /\ res.kind = "tuple"
            /\ res.pair[2] \in 1..12 /\ InScheme(res.pair[2])
            /\ total_months(res.pair[1], res.pair[2])
                 = NearestSchemeIndex(total_months(Get(op.a.year).n, Get(op.a.month).n))
            /\ total_months(Get(op.a.year).n, Get(op.a.month).n)
                 - total_months(res.pair[1], res.pair[2]) \in 0..2
    /\ op.name = "old_last_quarter_end"
         => /\ res.n \in 0..2
            /\ res.ok
                 => /\ res.obj.cls = "_quarter_end.QuarterEnd"
                    /\ res.obj.dt.hour = ArgDt(op).hour
                    /\ DT(res.obj.dt.year, res.obj.dt.month, res.obj.dt.day, 0)
                         = LastDayAt(NearestIndexIn(IndexOf(ArgDt(op)), {3, 6, 9, 12}))
                    /\ IndexOf(ArgDt(op)) - IndexOf(res.obj.dt) = res.n

\* C24 witness: from February under the scheme (3, 6, 9, 12) the scan steps
\* back twice, to December of the year before.
C24_Witness ==
    /\ op.name = "backtrack_to_scheme" /\ Get(op.a.month).n = 2
    /\ scheme = <<3, 6, 9, 12>>
    /\ res.ok /\ res.pair = <<ClockYear - 1, 12>>

\* C25: the factory Date never fails for a datetime and returns a
\* QuarterEnd exactly when the day is the last day of its month and the
\* month is 3, 6, 9 or 12, a MonthEnd exactly when the day is the last day
\* of any other month, and a plain DateBase otherwise, each wrapping the
\* instant it was given.
C25_FactoryClassifies ==
    op.name = "Date"
        => /\ res.ok /\ res.kind = "obj"
           /\ res.obj.dt = (IF op.flag THEN normalize_(ArgDt(op)) ELSE ArgDt(op))
           /\ res.obj.cls = "_quarter_end.QuarterEnd"
                <=> (OnLastDay(ArgDt(op)) /\ ArgDt(op).month \in {3, 6, 9, 12})
           /\ res.obj.cls = "_month_end.MonthEnd"
                <=> (OnLastDay(ArgDt(op)) /\ ArgDt(op).month \notin {3, 6, 9, 12})
           /\ res.obj.cls = "DateBase" <=> ~OnLastDay(ArgDt(op))

\* a restriction of the job to business hours or business days is not met
\* at clk
RestrictionUnmet(self, clk) ==
    \/ self.restrict_to_business_hours /\ ~is_business_hours(clk)
    \/ self.restrict_to_business_days /\ ~is_business_day(clk)

\* the invocation of job key at clk gets as far as the retry loop
ReachesLoop(m, key, clk) ==
    LET self == m.jobs[key] IN
    /\ IsNone(self.expiry) \/ ~DtLess(Get(self.expiry), clk)
    /\ self.status # Some(cascade_status)
    /\ is_active(m, self.name, self.at)

\* C26: when a restriction of a Task is not met, func is not called, and
\* when the first call of func raises PrerequisiteError, func is not called
\* again; in both cases the Task (its attempts, cancel_on_failure and
\* status) and the jobs table are as before, the invocation returns
\* ContinueFailedJob, and the scheduler keeps the job, stamped with the
\* current time and due again one period later.  A PrerequisiteError on a
\* later call, after i - 1 other exceptions, ends the invocation the same
\* way with no further call and the status as before.
C26_PrerequisiteKeepsJob ==
    [][(op'.name = "run_job" /\ ReachesLoop(master, op'.key, now))
       => /\ (\/ RestrictionUnmet(master.jobs[op'.key], now)
              \/ op'.outcomes[1] = "prereq")
               => /\ res'.ok /\ res'.ret = "ContinueFailedJob"
                  /\ res'.calls = (IF RestrictionUnmet(master.jobs[op'.key], now)
                                   THEN 0 ELSE 1)
                  /\ master'.jobs = master.jobs
                  /\ master'.db = master.db
                  /\ master'.running
                  /\ op'.key \in DOMAIN master'.scheduler
                  /\ master'.scheduler[op'.key] = ScheduledJob(Some(now), now)
          /\ \A i \in 2..MaxAttempts :
               (/\ ~RestrictionUnmet(master.jobs[op'.key], now)
                /\ i <= master.jobs[op'.key].attempts
                /\ FailsFirst(op'.outcomes, i - 1) /\ op'.outcomes[i] = "prereq")
                 => /\ res'.ok /\ res'.ret = "ContinueFailedJob" /\ res'.calls = i
                    /\ master'.jobs[op'.key].status = master.jobs[op'.key].status
                    /\ master'.jobs[op'.key].attempts
                         = master.jobs[op'.key].attempts - (i - 1)
                    /\ master'.scheduler[op'.key] = ScheduledJob(Some(now), now)]_vars

\* C26 witness: a job restricted to business days was run on a day that is
\* not one; func was not called and the job is still scheduled, stamped
\* with the time of the run.
C26_Witness ==
    /\ op.name = "run_job" /\ res.ok /\ res.ret = "ContinueFailedJob" /\ res.calls = 0
    /\ master.jobs[op.key].restrict_to_business_days /\ ~is_business_day(now)
    /\ master.jobs[op.key].status = None
    /\ op.key \in DOMAIN master.scheduler
    /\ master.scheduler[op.key].last_run = Some(now)

\* the other jobs of the name of job key
Siblings(m, key) == {k \in DOMAIN m.jobs : k[1] = key[1] /\ k # key}

\* C27: when a job created with cancel_on_completion completes, the
\* invocation returns CancelJob, the job's own status is 'cancelled on
\* completion' and its row is inactive; with cascade=True every other job
\* of its name has the status 'cancelled on cascade', in master.jobs and in
\* the table, and with cascade=False the other jobs of its name are as
\* before and still scheduled.  A job whose status is 'cancelled on
\* cascade' returns CancelJob at its next invocation without calling func.
C27_CascadeOnCompletion ==
    [][op'.name = "run_job"
       => /\ (/\ ReachesFunc(master, op'.key, now)
              /\ master.jobs[op'.key].cancel_on_completion
              /\ op'.outcomes[1] = "out")
               => /\ res'.ok /\ res'.ret = "CancelJob" /\ res'.calls = 1
                  /\ master'.jobs[op'.key].status = Some("cancelled on completion")
                  /\ master'.db[op'.key] = [status |-> Some("cancelled on completion"),
                                            active |-> 0]
                  /\ \A k \in Siblings(master, op'.key) :
                       IF master.jobs[op'.key].cascade
                       THEN /\ master'.jobs[k].status = Some(cascade_status)
                            /\ master'.db[k].status = Some(cascade_status)
                       ELSE /\ master'.jobs[k] = master.jobs[k]
                            /\ master'.db[k] = master.db[k]
                            /\ (k \in DOMAIN master.scheduler
                                  => k \in DOMAIN master'.scheduler)
          /\ master.jobs[op'.key].status = Some(cascade_status)
               => res'.ok /\ res'.ret = "CancelJob" /\ res'.calls = 0]_vars

\* the call is QuarterEnd(year=Y, quarter=q), with or without month=, for
\* integers Y and q
IsYearQuarterCall(o) ==
    /\ o.name = "QuarterEnd"
    /\ IsNone(o.a.arg) /\ ~IsNone(o.a.year) /\ ~IsNone(o.a.quarter)
    /\ Get(o.a.year).kind = "int" /\ Get(o.a.quarter).kind = "int"
    /\ o.a.offset = Int_(0)

\* C28: QuarterEnd(year=Y, quarter=q) succeeds for q in 1..4, with quarter
\* q, year Y and the month scheme[q-1]; it fails for every integer q outside
\* 1..4, and whenever quarter and month are both given.
C28_QuarterInRange ==
    IsYearQuarterCall(op)
        => /\ (Get(op.a.quarter).n \in 1..4 /\ IsNone(op.a.month))
                => /\ res.ok /\ res.kind = "obj"
                   /\ res.obj.cls = "QuarterEnd"
                   /\ res.obj.dt.year = Get(op.a.year).n
                   /\ res.obj.dt.month = scheme[Get(op.a.quarter).n]
                   /\ QuarterEnd_quarter(res.obj) = Return(Get(op.a.quarter).n)
           /\ Get(op.a.quarter).n \notin 1..4 => ~res.ok
           /\ ~IsNone(op.a.month) => ~res.ok

\* the call is QuarterEnd(year=Y, month=M) for integers Y and M, M in 1..12
IsYearMonthCall(o) ==
    /\ o.name = "QuarterEnd"
    /\ IsNone(o.a.arg) /\ ~IsNone(o.a.year) /\ ~IsNone(o.a.month) /\ IsNone(o.a.quarter)
    /\ Get(o.a.year).kind = "int" /\ Get(o.a.month).kind = "int"
    /\ Get(o.a.month).n \in 1..12
    /\ o.a.offset = Int_(0)

\* C29: QuarterEnd(year=Y, month=M) with M in 1..12 fails when M is not a
\* month of the active scheme, and when it succeeds the result has year Y
\* and month M.
C29_ExplicitMonthNotBacktracked ==
    IsYearMonthCall(op)
        => /\ ~InScheme(Get(op.a.month).n) => ~res.ok
           /\ res.ok => /\ res.obj.dt.year = Get(op.a.year).n
                        /\ res.obj.dt.month = Get(op.a.month).n

\* C30: whatever the clock does between the two anchor reads of one
\* offset(periods) call, the value the call returns is exactly periods
\* periods of the receiver's class away from the receiver.
C30_OffsetIgnoresClock ==
    (op.name = "offset_return" /\ res.ok /\ res.kind = "obj")
        => total_months(res.obj.dt.year, res.obj.dt.month)
           - total_months(t.dt.year, t.dt.month) = op.periods * increment(t.cls)

=============================================================================
